---- MODULE Spec2Model ----
(***************************************************************************)
(* KelvinBot: the supervised event-and-command bus (src/src/core/bus.rs).  *)
(* The Bus task is modelled step by step along Bus::run; service run       *)
(* tasks, middleware tasks, the clock and the cancellation token are the   *)
(* environment that runs in parallel with it.                              *)
(***************************************************************************)
EXTENDS Naturals, Integers, Sequences, FiniteSets, TLC

\* ---------------------------------------------------------------- bounds
\* events the services send in a run that only dispatches events
MaxEvents == 3
\* commands the middlewares send in a run that only dispatches commands
MaxCommands == 2
\* service exits in a run that only supervises (caps attempt_counters, a u32)
MaxExits == 3

\* ------------------------------------------------------- program constants
\* ReconnectionConfig defaults, in milliseconds and per mille
InitialDelayMs == 1000
MaxDelayMs == 60000
Multiplier == 2
JitterPermille == 100

\* ------------------------------------------------------------ the universe
Services == {"s1", "s2"}
UnknownService == "ghost"
Middlewares == {"A", "B", "C"}

\* service_middlewares of the configurations explored: a three-stage
\* pipeline next to a service without pipeline; two pipelines sharing
\* instances, one of them listing an instance twice; an empty pipeline.
PipelineConfigs ==
    { ("s1" :> <<"A", "B", "C">>),
      ("s1" :> <<"A", "B">>) @@ ("s2" :> <<"B", "A", "B">>),
      ("s1" :> <<>>) @@ ("s2" :> <<"A">>) }

\* what the environment does in one run: a run with events only, one with
\* commands only, one with service exits only, and one with a little of each
Scenarios ==
    { [events |-> MaxEvents, commands |-> 0, exits |-> 0],
      [events |-> 0, commands |-> MaxCommands, exits |-> 0],
      [events |-> 0, commands |-> 0, exits |-> MaxExits],
      [events |-> 1, commands |-> 1, exits |-> 1] }

NoEvent == [service_id |-> "none", id |-> 0]
NoPass == [evt |-> NoEvent, calls |-> <<>>, verdicts |-> <<>>]

VARIABLES
    limits,                 \* the scenario: what the environment may still do
    exits,                  \* ServiceId -> run tasks that have returned so far
    cancel,                 \* the CancellationToken given to Bus::run
    busPc,                  \* position of the Bus task in Bus::run
    busResult,              \* what Bus::run returned: "none", "ok", "err"
    service_middlewares,    \* ServiceId -> pipeline (absent: no pipeline)
    service_tasks,          \* ServiceId -> "absent", "running", "finished_ok", "finished_err"
    run_spawns,             \* ServiceId -> number of run tasks spawned so far
    completed_services,     \* the Vec the supervision loop walks
    attempt_count,          \* the local read at line 187 (0 outside the loop body)
    attempt_counters,       \* ServiceId -> u32 (absent reads as 0)
    backoff_state,          \* ServiceId -> ExponentialBackoff.attempt
    next_delay_calls,       \* ServiceId -> number of next_delay calls so far
    connection_start_times, \* ServiceId -> "unset", "recent", "over30"
    delay,                  \* the delay being slept, ms (0: not sleeping)
    middleware_handles,     \* middleware run tasks spawned, in spawn order
    evt_rx,                 \* the event channel
    evt_closed,             \* every event Sender dropped
    events_sent,            \* events sent so far (the id of the last one)
    dispatched,             \* the events the Bus dequeued, in order
    pass,                   \* the pipeline pass of the last dequeued event
    on_event_calls,         \* ServiceId -> on_event invocations for its events
    cmd_rx,                 \* the command channel
    cmd_closed,             \* every command Sender dropped
    commands_sent,          \* commands sent so far
    handled                 \* ServiceId -> commands given to handle_command

\* one ExponentialBackoff on its own (src/src/core/config.rs)
VARIABLES
    backoff,                \* the struct: its config and its attempt
    returned                \* what the last next_delay call returned

busVars == << limits, exits, cancel, busPc, busResult, service_middlewares, service_tasks,
              run_spawns, completed_services, attempt_count, attempt_counters,
              backoff_state, next_delay_calls, connection_start_times, delay,
              middleware_handles, evt_rx, evt_closed, events_sent, dispatched,
              pass, on_event_calls, cmd_rx, cmd_closed, commands_sent, handled >>
backoffVars == << backoff, returned >>

\* one AttendanceRelay (src/src/middlewares/attendance_relay.rs)
VARIABLES
    is_session_active,      \* SessionState
    active_participants,
    all_participants,
    session_start_time,     \* "None", "Some"
    live_message_id,        \* NoMessage, or the id a reply delivered
    state_lock,             \* the task holding the state Mutex (0: free)
    relay_limits,           \* the scenario: on_event calls, tasks at one time
    relay_tasks,            \* the tasks on_event spawned, in spawn order
    relay_cmds,             \* what the relay put on the command channel
    relay_rx_dropped,       \* the command Receiver is gone: send fails
    relay_verdicts,         \* the on_event calls in order: the event, the
                            \* verdict returned, the task spawned (0: none)
    reordered,              \* a task took the lock before an earlier one
    last_transition,        \* kind and reply of the last finished transition
    script_pos              \* how far the inputs follow SessionScript (-1: not)

relayVars == << relay_limits, is_session_active, active_participants, all_participants,
                session_start_time, live_message_id, state_lock, relay_tasks,
                relay_cmds, relay_rx_dropped, relay_verdicts,
                reordered, last_transition, script_pos >>

\* one ChatRelay (src/src/middlewares/chat_relay.rs)
VARIABLES
    chat_source_room,       \* source_room_id: "None" or the room
    chat_calls,             \* the on_event calls: event, verdict, task spawned
    chat_tasks,             \* the commands of the spawned tasks not yet sent
    chat_cmds,              \* what the relay put on the command channel
    chat_rx_dropped         \* the command Receiver is gone: send fails

chatVars == << chat_source_room, chat_calls, chat_tasks, chat_cmds, chat_rx_dropped >>

\* commands with a reply handle on their way through the Bus to a service
\* (src/src/services/dummy.rs, matrix.rs, mumble.rs)
VARIABLES
    issued,                 \* commands the middlewares sent so far
    response,               \* the oneshot of the command: what its awaiter sees
    values_sent,            \* values sent on that oneshot
    hc,                     \* the handle_command call: command and how it ended
    msg_tx,                 \* MumbleService.msg_tx: "None", "Some"
    state_holder,           \* MumbleService.state Mutex: "free", "run", "bus"
    mumble_run,             \* MumbleService::run: where it is
    send_rx                 \* packets in the channel from handle_command to run

replyVars == << issued, response, values_sent, hc, msg_tx, state_holder,
                mumble_run, send_rx >>

\* the Bus variables that the model of the replies leaves alone
busRest == << limits, exits, cancel, busResult, service_middlewares, service_tasks,
              run_spawns, completed_services, attempt_count, attempt_counters,
              backoff_state, next_delay_calls, connection_start_times, delay,
              middleware_handles, evt_closed, events_sent, dispatched,
              pass, on_event_calls, cmd_closed, commands_sent, handled >>

\* one Invite or one Echo with the tasks it spawned
\* (src/src/middlewares/invite.rs, echo.rs)
VARIABLES
    mw_config,              \* command_string, and Invite's uses_allowed, expiry
    mw_calls,               \* the on_event calls: event and verdict
    mw_tasks,               \* the tasks on_event spawned, in spawn order
    mw_cmds,                \* the cmd_tx.send calls of the tasks, in order
    mw_rx_dropped           \* the command Receiver is gone: send fails

mwVars == << mw_config, mw_calls, mw_tasks, mw_cmds, mw_rx_dropped >>

\* one call of build_middleware_pipeline (src/src/core/middleware.rs)
VARIABLES
    middleware_names,       \* the names a service lists
    all_middlewares,        \* name -> instance, of the names defined
    built                   \* what the call returned

buildVars == << middleware_names, all_middlewares, built >>

\* everything outside the Bus model
otherVars == << backoffVars, relayVars, chatVars, replyVars, mwVars, buildVars >>
\* everything outside the ExponentialBackoff model
outsideBackoff == << busVars, relayVars, chatVars, replyVars, mwVars, buildVars >>
\* everything outside the AttendanceRelay model
outsideRelay == << busVars, backoffVars, chatVars, replyVars, mwVars, buildVars >>
\* everything outside the ChatRelay model
outsideChat == << busVars, backoffVars, relayVars, replyVars, mwVars, buildVars >>
\* everything outside the model of the replies
outsideReply == << busRest, backoffVars, relayVars, chatVars, mwVars, buildVars >>
\* everything outside the Invite and Echo models
outsideMw == << busVars, backoffVars, relayVars, chatVars, replyVars, buildVars >>
\* everything outside the model of build_middleware_pipeline
outsideBuild == << busVars, backoffVars, relayVars, chatVars, replyVars, mwVars >>

vars == << busVars, backoffVars, relayVars, chatVars, replyVars, mwVars, buildVars >>

supervisionVars == << service_tasks, run_spawns, completed_services, attempt_count,
                      attempt_counters, backoff_state, next_delay_calls,
                      connection_start_times, delay >>
eventVars == << evt_rx, dispatched, pass, on_event_calls >>
commandVars == << cmd_rx, handled >>
envVars == << limits, exits, cancel, evt_closed, events_sent, cmd_closed, commands_sent >>

\* ------------------------------------------------------------------ helpers
Min(a, b) == IF a < b THEN a ELSE b
Max(a, b) == IF a > b THEN a ELSE b

RECURSIVE Pow(_, _)
Pow(b, n) == IF n = 0 THEN 1 ELSE b * Pow(b, n - 1)

\* every order in which a HashMap may yield the keys S
Orders(S) ==
    { o \in [1..Cardinality(S) -> S] : \A i, j \in 1..Cardinality(S) : o[i] = o[j] => i = j }

RECURSIVE Flatten(_, _)
Flatten(order, pipelines) ==
    IF order = <<>> THEN <<>>
    ELSE pipelines[Head(order)] \o Flatten(Tail(order), pipelines)

\* the sum of a counter over a set of keys
RECURSIVE SumOver(_, _)
SumOver(f, S) ==
    IF S = {} THEN 0
    ELSE LET x == CHOOSE y \in S : TRUE IN f[x] + SumOver(f, S \ {x})

\* a handle taken for finished while its task still runs
IsFinishedOrRunning(task) == task \in {"finished_ok", "finished_err", "running"}

\* handle.is_finished(), line 172
IsFinished(task) == task \in {"finished_ok", "finished_err"}

\* ------------------------------------------------------ ExponentialBackoff
Jitters == {0 - JitterPermille, 0, JitterPermille}

BaseDelay(attempt) == InitialDelayMs * Pow(Multiplier, attempt)
CappedDelay(attempt) == Min(BaseDelay(attempt), MaxDelayMs)
\* next_delay: the delay for the current attempt with the jitter sample
NextDelay(attempt, jitter) ==
    Max((CappedDelay(attempt) * (1000 + jitter)) \div 1000, 0)

\* ------------------------------------------------------- middleware startup
\* the deduplication left out
AlreadyStartedNever(started, middleware) == FALSE

\* lines 152-153
AlreadyStarted(started, middleware) ==
    \E i \in 1..Len(started) : started[i] = middleware

RECURSIVE StartMiddlewares(_, _)
StartMiddlewares(flat, started) ==
    IF flat = <<>> THEN started
    ELSE StartMiddlewares(Tail(flat),
            IF ~AlreadyStarted(started, Head(flat))
            THEN Append(started, Head(flat))
            ELSE started)

\* ------------------------------------------------------------------- Init
\* ExponentialBackoff::new with the default configuration
NoDelay == [base |-> 0, capped |-> 0, final |-> 0, panicked |-> FALSE, called |-> FALSE]
BackoffAtRest ==
    /\ backoff = [config |-> [initial_delay |-> InitialDelayMs, max_delay |-> MaxDelayMs,
                              multiplier |-> Multiplier * 10,
                              jitter_factor |-> JitterPermille],
                  attempt |-> 0]
    /\ returned = NoDelay

\* SessionState::new, lines 58-68, and no event seen yet
NoMessage == 0
NoTransition == [kind |-> "none", reply |-> NoMessage, current_active |-> {},
                 seen |-> {}]
RelayConstructed ==
    /\ is_session_active = FALSE
    /\ active_participants = {}
    /\ all_participants = {}
    /\ session_start_time = "None"
    /\ live_message_id = NoMessage
    /\ state_lock = 0
    /\ relay_tasks = <<>>
    /\ relay_cmds = <<>>
    /\ relay_rx_dropped = FALSE
    /\ relay_verdicts = <<>>
    /\ reordered = FALSE
    /\ last_transition = NoTransition
    /\ script_pos = 0

RelayAtRest ==
    /\ relay_limits = [updates |-> 0, pending |-> 0, log |-> FALSE]
    /\ RelayConstructed

\* ChatRelay::new, lines 32-41
ChatConstructed ==
    /\ chat_calls = <<>>
    /\ chat_tasks = <<>>
    /\ chat_cmds = <<>>
    /\ chat_rx_dropped = FALSE

ChatAtRest ==
    /\ chat_source_room = "None"
    /\ ChatConstructed

\* no command issued; MumbleService::create, lines 81-91
NoCall == [service |-> "none", kind |-> "none", with_reply |-> FALSE,
           result |-> "none", happy |-> FALSE]
ReplyAtRest ==
    /\ issued = 0
    /\ response = "none"
    /\ values_sent = 0
    /\ hc = NoCall
    /\ msg_tx = "None"
    /\ state_holder = "free"
    /\ mumble_run = "not_started"
    /\ send_rx = 0

\* the components that a run of the Bus model leaves alone
\* Invite::new, Echo::new: nothing called, nothing spawned
NoConfig == [command_string |-> << >>, uses_allowed |-> << >>, expiry |-> << >>]
MwConstructed ==
    /\ mw_calls = <<>>
    /\ mw_tasks = <<>>
    /\ mw_cmds = <<>>
    /\ mw_rx_dropped = FALSE
MwAtRest ==
    /\ mw_config = NoConfig
    /\ MwConstructed

\* build_middleware_pipeline not called
NotBuilt == [result |-> "none", pipeline |-> <<>>, name |-> "None"]
BuildAtRest ==
    /\ middleware_names = <<>>
    /\ all_middlewares = <<>>
    /\ built = NotBuilt

OthersAtRest ==
    /\ BackoffAtRest
    /\ RelayAtRest
    /\ ChatAtRest
    /\ ReplyAtRest
    /\ MwAtRest
    /\ BuildAtRest

Init ==
    /\ OthersAtRest
    /\ limits \in Scenarios
    /\ exits = [s \in Services |-> 0]
    /\ cancel = FALSE
    /\ busPc = "start"
    /\ busResult = "none"
    /\ service_middlewares \in PipelineConfigs
    /\ service_tasks = [s \in Services |-> "absent"]
    /\ run_spawns = [s \in Services |-> 0]
    /\ completed_services = <<>>
    /\ attempt_count = 0
    /\ attempt_counters = [s \in Services |-> 0]
    /\ backoff_state = [s \in Services |-> 0]
    /\ next_delay_calls = [s \in Services |-> 0]
    /\ connection_start_times = [s \in Services |-> "unset"]
    /\ delay = 0
    /\ middleware_handles = <<>>
    /\ evt_rx = <<>>
    /\ evt_closed = FALSE
    /\ events_sent = 0
    /\ dispatched = <<>>
    /\ pass = NoPass
    /\ on_event_calls = [s \in Services |-> 0]
    /\ cmd_rx = <<>>
    /\ cmd_closed = FALSE
    /\ commands_sent = 0
    /\ handled = [s \in Services |-> <<>>]

\* ------------------------------------------------------------ Bus::run
\* lines 130-166: spawn every service, start every distinct middleware
BusStart ==
    /\ busPc = "start"
    /\ service_tasks' = [s \in Services |-> "running"]
    /\ run_spawns' = [s \in Services |-> run_spawns[s] + 1]
    /\ connection_start_times' = [s \in Services |-> "recent"]
    /\ \E order \in Orders(DOMAIN service_middlewares) :
          middleware_handles' = StartMiddlewares(Flatten(order, service_middlewares), <<>>)
    /\ busPc' = "check"
    /\ UNCHANGED << busResult, service_middlewares, completed_services, attempt_count,
                    attempt_counters, backoff_state, next_delay_calls, delay >>
    /\ UNCHANGED << eventVars, commandVars, envVars >>
    /\ UNCHANGED otherVars

\* where the supervision loop goes once it is done with the head of
\* completed_services
AfterCompleted(rest) == IF rest = <<>> THEN "select" ELSE "supervise"

\* lines 170-178: collect and remove the finished tasks
BusCheck ==
    /\ busPc = "check"
    /\ \E order \in Orders({s \in Services : IsFinished(service_tasks[s])}) :
          /\ completed_services' = order
          /\ busPc' = AfterCompleted(order)
    /\ service_tasks' = [s \in Services |->
                            IF IsFinished(service_tasks[s]) THEN "absent" ELSE service_tasks[s]]
    /\ UNCHANGED << busResult, service_middlewares, run_spawns, attempt_count,
                    attempt_counters, backoff_state, next_delay_calls,
                    connection_start_times, delay, middleware_handles >>
    /\ UNCHANGED << eventVars, commandVars, envVars >>
    /\ UNCHANGED otherVars

\* lines 182-184: the exit is recorded, nothing is restarted
BusSuperviseShutdown ==
    /\ busPc = "supervise"
    /\ cancel
    /\ completed_services' = Tail(completed_services)
    /\ busPc' = AfterCompleted(Tail(completed_services))
    /\ UNCHANGED << busResult, service_middlewares, service_tasks, run_spawns,
                    attempt_count, attempt_counters, backoff_state, next_delay_calls,
                    connection_start_times, delay, middleware_handles >>
    /\ UNCHANGED << eventVars, commandVars, envVars >>
    /\ UNCHANGED otherVars

\* line 196
Recovered(was_long_running, count) == was_long_running /\ count > 0

\* the attempt counted twice
NewAttemptTwice(count) == count + 2

\* the attempt not counted
NewAttemptKept(count) == count

\* line 210: the counter that is stored, from the value read at line 187
NewAttempt(count) == count + 1

\* lines 186-232: reset after a long run, count the attempt, compute the delay
BusSuperviseExit ==
    /\ busPc = "supervise"
    /\ ~cancel
    /\ LET id == Head(completed_services)
           count == attempt_counters[id]
           was_long_running == connection_start_times[id] = "over30"
           recovered == Recovered(was_long_running, count)
           counters_reset == IF recovered
                             THEN [attempt_counters EXCEPT ![id] = 0]
                             ELSE attempt_counters
           backoff_reset == IF recovered THEN 0 ELSE backoff_state[id]
       IN /\ attempt_count' = count
          /\ attempt_counters' = [counters_reset EXCEPT ![id] = NewAttempt(count)]
          /\ \E jitter \in Jitters : delay' = NextDelay(backoff_reset, jitter)
          /\ backoff_state' = [backoff_state EXCEPT ![id] = backoff_reset + 1]
          /\ next_delay_calls' = [next_delay_calls EXCEPT ![id] = @ + 1]
    /\ busPc' = "backoff"
    /\ UNCHANGED << busResult, service_middlewares, service_tasks, run_spawns,
                    completed_services, connection_start_times, middleware_handles >>
    /\ UNCHANGED << eventVars, commandVars, envVars >>
    /\ UNCHANGED otherVars

\* lines 235-239: the select takes the cancellation branch
BusBackoffCancelled ==
    /\ busPc = "backoff"
    /\ cancel
    /\ completed_services' = Tail(completed_services)
    /\ busPc' = AfterCompleted(Tail(completed_services))
    /\ delay' = 0
    /\ attempt_count' = 0
    /\ UNCHANGED << busResult, service_middlewares, service_tasks, run_spawns,
                    attempt_counters, backoff_state, next_delay_calls,
                    connection_start_times, middleware_handles >>
    /\ UNCHANGED << eventVars, commandVars, envVars >>
    /\ UNCHANGED otherVars

\* lines 240-257: the select takes the sleep branch, the service is restarted.
\* select! polls its branches in random order: when the timer has elapsed
\* and the token is cancelled both branches are ready and either is taken.
BusBackoffElapsed ==
    /\ busPc = "backoff"
    /\ LET id == Head(completed_services)
       IN /\ service_tasks' = [service_tasks EXCEPT ![id] = "running"]
          /\ run_spawns' = [run_spawns EXCEPT ![id] = @ + 1]
          /\ connection_start_times' = [connection_start_times EXCEPT ![id] = "recent"]
    /\ completed_services' = Tail(completed_services)
    /\ busPc' = AfterCompleted(Tail(completed_services))
    /\ delay' = 0
    /\ attempt_count' = 0
    /\ UNCHANGED << busResult, service_middlewares, attempt_counters, backoff_state,
                    next_delay_calls, middleware_handles >>
    /\ UNCHANGED << eventVars, commandVars, envVars >>
    /\ UNCHANGED otherVars

\* lines 262-265
BusSelectCancelled ==
    /\ busPc = "select"
    /\ cancel
    /\ busPc' = "done"
    /\ busResult' = "ok"
    /\ UNCHANGED << service_middlewares, middleware_handles >>
    /\ UNCHANGED << supervisionVars, eventVars, commandVars, envVars >>
    /\ UNCHANGED otherVars

HasPipeline(service_id) == service_id \in DOMAIN service_middlewares

\* the lookup that falls back on the pipeline of another service
GetPipelineOrAny(service_id) ==
    LET known == CHOOSE s \in DOMAIN service_middlewares :
                    \A r \in DOMAIN service_middlewares :
                       Len(service_middlewares[r]) <= Len(service_middlewares[s])
    IN  IF HasPipeline(service_id) /\ service_middlewares[service_id] # <<>>
        THEN << service_middlewares[service_id] >>
        ELSE << service_middlewares[known] >>

\* service_middlewares.get(&evt.service_id), line 271: << >> is None
GetPipeline(service_id) ==
    IF HasPipeline(service_id) THEN << service_middlewares[service_id] >> ELSE << >>

\* the event channel polled during the backoff sleep as well
CanRecvEventWhileAsleep == busPc \in {"select", "backoff"}

\* the Bus may take an event off the channel
CanRecvEvent == busPc = "select"

\* the newest event taken instead of the oldest
NextEventNewest(queue) == queue[Len(queue)]

\* the event recv yields
NextEvent(queue) == Head(queue)
RestEvents(queue) == Tail(queue)

\* lines 266-281, up to the first on_event
BusRecvEvent ==
    /\ CanRecvEvent
    /\ evt_rx # <<>>
    /\ LET evt == NextEvent(evt_rx)
       IN /\ evt_rx' = RestEvents(evt_rx)
          /\ dispatched' = Append(dispatched, evt)
          /\ pass' = [evt |-> evt, calls |-> <<>>, verdicts |-> <<>>]
          /\ busPc' = IF GetPipeline(evt.service_id) \notin { << >>, << << >> >> }
                      THEN "dispatch" ELSE "check"
    /\ UNCHANGED << busResult, service_middlewares, middleware_handles, on_event_calls >>
    /\ UNCHANGED << supervisionVars, commandVars, envVars >>
    /\ UNCHANGED otherVars

OnEventResults == {"Continue", "Stop", "Err"}

\* lines 272-277: where the Bus goes after on_event returned result
AfterOnEvent(result, index, pipeline) ==
    CASE result = "Err" -> "done"
      [] result = "Stop" -> "check"
      [] OTHER -> IF index = Len(pipeline) THEN "check" ELSE "dispatch"

\* lines 272-277: one on_event of the pass
BusOnEvent ==
    /\ busPc = "dispatch"
    /\ LET pipeline == GetPipeline(pass.evt.service_id)[1]
           index == Len(pass.calls) + 1
       IN \E result \in OnEventResults :
             /\ pass' = [pass EXCEPT !.calls = Append(@, pipeline[index]),
                                     !.verdicts = Append(@, result)]
             /\ busPc' = AfterOnEvent(result, index, pipeline)
             /\ busResult' = IF result = "Err" THEN "err" ELSE busResult
    /\ on_event_calls' = [on_event_calls EXCEPT ![pass.evt.service_id] = @ + 1]
    /\ UNCHANGED << service_middlewares, middleware_handles, evt_rx, dispatched >>
    /\ UNCHANGED << supervisionVars, commandVars, envVars >>
    /\ UNCHANGED otherVars

\* line 268: recv yields None
BusEventChannelClosed ==
    /\ busPc = "select"
    /\ evt_rx = <<>>
    /\ evt_closed
    /\ busPc' = "done"
    /\ busResult' = "ok"
    /\ UNCHANGED << service_middlewares, middleware_handles >>
    /\ UNCHANGED << supervisionVars, eventVars, commandVars, envVars >>
    /\ UNCHANGED otherVars

\* the command given to every service
CommandTargetsAll(service_id) == Services

\* line 295: the services handle_command is called on
CommandTargets(service_id) == {s \in Services : s = service_id}

\* lines 282-302
BusRecvCommand ==
    /\ busPc = "select"
    /\ cmd_rx # <<>>
    /\ LET cmd == Head(cmd_rx)
       IN handled' = [s \in Services |->
                        IF s \in CommandTargets(cmd.service_id)
                        THEN Append(handled[s], cmd) ELSE handled[s]]
    /\ cmd_rx' = Tail(cmd_rx)
    /\ busPc' = "check"
    /\ UNCHANGED << busResult, service_middlewares, middleware_handles >>
    /\ UNCHANGED << supervisionVars, eventVars, envVars >>
    /\ UNCHANGED otherVars

\* line 284: recv yields None
BusCommandChannelClosed ==
    /\ busPc = "select"
    /\ cmd_rx = <<>>
    /\ cmd_closed
    /\ busPc' = "done"
    /\ busResult' = "ok"
    /\ UNCHANGED << service_middlewares, middleware_handles >>
    /\ UNCHANGED << supervisionVars, eventVars, commandVars, envVars >>
    /\ UNCHANGED otherVars

\* lines 303-306: the 100 ms sleep wins when no other branch is ready
BusTick ==
    /\ busPc = "select"
    /\ ~cancel
    /\ evt_rx = <<>> /\ ~evt_closed
    /\ cmd_rx = <<>> /\ ~cmd_closed
    /\ busPc' = "check"
    /\ UNCHANGED << busResult, service_middlewares, middleware_handles >>
    /\ UNCHANGED << supervisionVars, eventVars, commandVars, envVars >>
    /\ UNCHANGED otherVars

Bus ==
    \/ BusStart
    \/ BusCheck
    \/ BusSuperviseShutdown
    \/ BusSuperviseExit
    \/ BusBackoffCancelled
    \/ BusBackoffElapsed
    \/ BusSelectCancelled
    \/ BusRecvEvent
    \/ BusOnEvent
    \/ BusEventChannelClosed
    \/ BusRecvCommand
    \/ BusCommandChannelClosed
    \/ BusTick

\* ------------------------------------------------------------ environment
\* a service run task sends an event on its Sender
ServiceEmit(s) ==
    /\ service_tasks[s] = "running"
    /\ ~evt_closed
    /\ events_sent < limits.events
    /\ events_sent' = events_sent + 1
    /\ evt_rx' = Append(evt_rx, [service_id |-> s, id |-> events_sent + 1])
    /\ UNCHANGED << limits, exits, cancel, busPc, busResult, service_middlewares, middleware_handles,
                    dispatched, pass, on_event_calls, evt_closed, cmd_closed, commands_sent >>
    /\ UNCHANGED << supervisionVars, commandVars >>
    /\ UNCHANGED otherVars

\* a service run task returns, Ok or Err
ServiceExit(s) ==
    /\ service_tasks[s] = "running"
    /\ SumOver(exits, Services) < limits.exits
    /\ exits' = [exits EXCEPT ![s] = @ + 1]
    /\ \E result \in {"finished_ok", "finished_err"} :
          service_tasks' = [service_tasks EXCEPT ![s] = result]
    /\ UNCHANGED << busPc, busResult, service_middlewares, run_spawns, completed_services,
                    attempt_count, attempt_counters, backoff_state, next_delay_calls,
                    connection_start_times, delay, middleware_handles >>
    /\ UNCHANGED << limits, cancel, evt_closed, events_sent, cmd_closed, commands_sent >>
    /\ UNCHANGED << eventVars, commandVars >>
    /\ UNCHANGED otherVars

\* more than 30 s have passed since the service was started
Elapse(s) ==
    /\ limits.exits > 0
    /\ connection_start_times[s] = "recent"
    /\ connection_start_times' = [connection_start_times EXCEPT ![s] = "over30"]
    /\ UNCHANGED << busPc, busResult, service_middlewares, service_tasks, run_spawns,
                    completed_services, attempt_count, attempt_counters, backoff_state,
                    next_delay_calls, delay, middleware_handles >>
    /\ UNCHANGED << eventVars, commandVars, envVars >>
    /\ UNCHANGED otherVars

\* a middleware task sends a command for some service id
MiddlewareSend(target) ==
    /\ ~cmd_closed
    /\ commands_sent < limits.commands
    /\ commands_sent' = commands_sent + 1
    /\ cmd_rx' = Append(cmd_rx, [service_id |-> target, id |-> commands_sent + 1])
    /\ UNCHANGED << limits, exits, cancel, busPc, busResult, service_middlewares, middleware_handles,
                    handled, evt_closed, events_sent, cmd_closed >>
    /\ UNCHANGED << supervisionVars, eventVars >>
    /\ UNCHANGED otherVars

\* the owner of the token cancels it
Cancel ==
    /\ ~cancel
    /\ cancel' = TRUE
    /\ UNCHANGED << limits, exits, busPc, busResult, service_middlewares,
                    middleware_handles, evt_closed, events_sent, cmd_closed, commands_sent >>
    /\ UNCHANGED << supervisionVars, eventVars, commandVars >>
    /\ UNCHANGED otherVars

\* the last event Sender is dropped
CloseEvents ==
    /\ ~evt_closed
    /\ evt_closed' = TRUE
    /\ UNCHANGED << limits, exits, cancel, busPc, busResult, service_middlewares, middleware_handles,
                    events_sent, cmd_closed, commands_sent >>
    /\ UNCHANGED << supervisionVars, eventVars, commandVars >>
    /\ UNCHANGED otherVars

\* the last command Sender is dropped
CloseCommands ==
    /\ ~cmd_closed
    /\ cmd_closed' = TRUE
    /\ UNCHANGED << limits, exits, cancel, busPc, busResult, service_middlewares, middleware_handles,
                    evt_closed, events_sent, commands_sent >>
    /\ UNCHANGED << supervisionVars, eventVars, commandVars >>
    /\ UNCHANGED otherVars

Environment ==
    \/ \E s \in Services : ServiceEmit(s)
    \/ \E s \in Services : ServiceExit(s)
    \/ \E s \in Services : Elapse(s)
    \/ \E target \in Services \cup {UnknownService} : MiddlewareSend(target)
    \/ Cancel
    \/ CloseEvents
    \/ CloseCommands

Next == Bus \/ Environment

Spec == Init /\ [][Next]_vars

\* the Bus task is scheduled whenever it can take a step (timers fire, the
\* runtime polls a woken task); nothing is assumed of the environment
FairSpec == Spec /\ WF_vars(Bus)

\* ================================================================ claims
Pipeline(service_id) == service_middlewares[service_id]

\* a pipeline pass of the last dequeued event exists and is over
PassEnded ==
    /\ busPc # "dispatch"
    /\ pass.evt # NoEvent
    /\ HasPipeline(pass.evt.service_id)

\* C1: when the pass for an event is over, on_event was invoked on the
\* middlewares of its pipeline in list order, on every one up to and
\* including the first that returned Stop (on all of them when none did),
\* and on none after it.
C1_InvokedInOrderUpToFirstStop ==
    PassEnded =>
        LET pipeline == Pipeline(pass.evt.service_id)
            n == Len(pass.calls)
        IN /\ n <= Len(pipeline)
           /\ pass.calls = SubSeq(pipeline, 1, n)
           /\ \A i \in 1..(n - 1) : pass.verdicts[i] # "Stop"
           /\ n = Len(pipeline) \/ (n > 0 /\ pass.verdicts[n] = "Stop")

\* C9: an on_event that returned an error does not end Bus::run with that
\* error, and is not treated as Stop: the next middleware of the pipeline
\* is invoked as well.
C9_OnEventErrorLoggedAndContinued ==
    \A i \in 1..Len(pass.verdicts) :
        pass.verdicts[i] = "Err" =>
            /\ busResult # "err"
            /\ i < Len(Pipeline(pass.evt.service_id)) =>
                  (busPc = "dispatch" \/ Len(pass.calls) > i)

\* how many run tasks were spawned for a middleware instance
RunsStarted(middleware) ==
    Cardinality({i \in 1..Len(middleware_handles) : middleware_handles[i] = middleware})

InSomePipeline(middleware) ==
    \E s \in DOMAIN service_middlewares :
        \E i \in 1..Len(service_middlewares[s]) : service_middlewares[s][i] = middleware

\* C7: once the Bus has started, run was spawned exactly once for every
\* middleware instance that appears in some pipeline, whatever the number
\* of pipelines and positions that name it, and for no other instance.
C7_MiddlewareRunStartedOnce ==
    busPc # "start" =>
        \A m \in Middlewares : RunsStarted(m) = (IF InSomePipeline(m) THEN 1 ELSE 0)

\* C7 witness: the Bus started with an instance shared by two pipelines and
\* listed twice in one of them
C7_Witness ==
    /\ busPc # "start"
    /\ DOMAIN service_middlewares = Services
    /\ service_middlewares["s2"] = <<"B", "A", "B">>
    /\ RunsStarted("B") = 1
    /\ RunsStarted("A") = 1

Ids(queue) == [i \in 1..Len(queue) |-> queue[i].id]

EventsOf(s) == Cardinality({i \in 1..Len(dispatched) : dispatched[i].service_id = s})

\* the pass of the last dequeued event has made all the on_event calls it makes
PassComplete ==
    \/ pass.evt = NoEvent
    \/ ~HasPipeline(pass.evt.service_id)
    \/ Len(pass.calls) = Len(Pipeline(pass.evt.service_id))
    \/ (pass.calls # <<>> /\ pass.verdicts[Len(pass.calls)] = "Stop")

\* C2 (state part): the events dequeued so far followed by those waiting in
\* the channel are the events sent, in the order sent, each once; a pass in
\* progress is that of the last event dequeued; for a one-middleware
\* pipeline the number of on_event calls is the number of its events
\* dispatched.
C2_Accounting ==
    /\ Ids(dispatched) \o Ids(evt_rx) = [i \in 1..events_sent |-> i]
    /\ busPc = "dispatch" => pass.evt = dispatched[Len(dispatched)]
    /\ \A s \in Services :
          (HasPipeline(s) /\ Len(Pipeline(s)) = 1) =>
              on_event_calls[s] =
                  EventsOf(s) - (IF busPc = "dispatch" /\ pass.evt.service_id = s THEN 1 ELSE 0)

\* C2 (step part): an event is dequeued only from the head of the channel
\* and only when the pass of the previous event is complete.
C2_DequeueStep ==
    dispatched' # dispatched =>
        /\ busPc = "select"
        /\ PassComplete
        /\ evt_rx # <<>>
        /\ dispatched' = Append(dispatched, Head(evt_rx))
        /\ evt_rx' = Tail(evt_rx)

CommandDequeued == cmd_rx # <<>> /\ cmd_rx' = Tail(cmd_rx)

\* C8: a command taken off the channel is given to handle_command of the
\* registered service named by its service_id and to no other; when no
\* registered service has that id, no handle_command is invoked, the Bus
\* state is unchanged and the Bus is back at the top of its loop.
C8_CommandRouting ==
    [][CommandDequeued =>
          LET cmd == Head(cmd_rx)
          IN IF cmd.service_id \in Services
             THEN handled' = [handled EXCEPT ![cmd.service_id] = Append(@, cmd)]
             ELSE /\ handled' = handled
                  /\ busPc' = "check"
                  /\ UNCHANGED << busResult, service_middlewares, middleware_handles,
                                  supervisionVars, eventVars >>]_vars

\* C8 witness: of two commands the first was handled by s1, the second
\* named no registered service and was discarded, and the Bus loop goes on
C8_Witness ==
    /\ commands_sent = 2
    /\ cmd_rx = <<>>
    /\ Len(handled["s1"]) = 1 /\ handled["s1"][1].id = 1
    /\ handled["s2"] = <<>>
    /\ busPc = "select"

\* the step that spawns a run of s after startup
Restarted(s) == busPc # "start" /\ run_spawns'[s] # run_spawns[s]

C4_LongRunResetsAttemptCount ==
    [][(/\ busPc = "supervise"
        /\ busPc' = "backoff"
        /\ connection_start_times[Head(completed_services)] = "over30"
        /\ attempt_counters[Head(completed_services)] > 0)
          => /\ attempt_counters'[Head(completed_services)] = 1
             /\ \E jitter \in Jitters : delay' = NextDelay(0, jitter)]_vars

C6_NoSpawnAfterCancel ==
    [][/\ (busPc = "supervise" /\ cancel /\ completed_services' # completed_services)
            => /\ run_spawns' = run_spawns
               /\ service_tasks' = service_tasks
               /\ attempt_counters' = attempt_counters
               /\ backoff_state' = backoff_state
               /\ connection_start_times' = connection_start_times
       /\ (cancel /\ busPc # "start") => run_spawns' = run_spawns]_vars

\* C10: once the token is cancelled while Bus::run is running, Bus::run
\* eventually returns Ok(()).
C10_CancelledRunReturnsOk ==
    (cancel /\ busPc # "done") ~> (busPc = "done" /\ busResult = "ok")

\* the service has no pipeline registered, or an empty one
WithoutMiddleware(service_id) ==
    \/ service_id \notin DOMAIN service_middlewares
    \/ service_middlewares[service_id] = <<>>

\* the step takes an event of such a service off the channel
DropsEvent ==
    /\ Len(dispatched') = Len(dispatched) + 1
    /\ WithoutMiddleware(dispatched'[Len(dispatched')].service_id)

\* C34: an event of a service without registered pipeline, or with an empty
\* one, is taken off the channel and dropped: no on_event is invoked for
\* it, the step changes nothing of the services, their tasks and counters,
\* the middlewares or the command channel, and Bus::run has not returned
\* but is back at the top of its loop
C34_EventWithoutPipelineDropped ==
    /\ [](\A s \in Services : WithoutMiddleware(s) => on_event_calls[s] = 0)
    /\ []((pass.evt # NoEvent /\ WithoutMiddleware(pass.evt.service_id)) =>
             pass.calls = <<>>)
    /\ [][DropsEvent =>
            /\ busPc' = "check"
            /\ busResult' = "none"
            /\ UNCHANGED << supervisionVars, commandVars, on_event_calls,
                            service_middlewares, middleware_handles >>]_vars

\* an event of the service without pipeline was dropped, the event after it
\* went through the pipeline of the other service, and the Bus is back at
\* its select
C34_Witness ==
    /\ "s2" \notin DOMAIN service_middlewares
    /\ Len(dispatched) = 2
    /\ dispatched[1].service_id = "s2"
    /\ dispatched[2].service_id = "s1"
    /\ Len(pass.calls) = 3
    /\ on_event_calls["s2"] = 0
    /\ busPc = "select"

\* Bus::run leaves its loop in this step
LeavesLoop == busPc # "done" /\ busPc' = "done"

\* C35: Bus::run leaves its loop only when recv on the event channel or on
\* the command channel yields None, or when the token is cancelled; it then
\* returns Ok(()) and the step restarts no service
C35_LoopEndsOnClosureOrCancelOnly ==
    [][LeavesLoop =>
          /\ \/ cancel
             \/ evt_closed /\ evt_rx = <<>>
             \/ cmd_closed /\ cmd_rx = <<>>
          /\ busResult' = "ok"
          /\ UNCHANGED << service_tasks, run_spawns >>]_vars

\* the run tasks of the service that have been spawned and have not returned
UnfinishedRuns(s) == run_spawns[s] - exits[s]

\* the step spawns a run task of the service
Spawns(s) == run_spawns'[s] = run_spawns[s] + 1

\* C36: at every point of Bus::run each service has at most one run task
\* that has not returned, and has one exactly when the task map holds a
\* handle of a running task; after the start a run task is spawned only for
\* the service the supervision loop is handling, whose handle was found
\* finished and removed from the task map and whose earlier run tasks have
\* all returned
C36_OneRunTaskPerService ==
    /\ [](\A s \in Services :
            /\ UnfinishedRuns(s) \in {0, 1}
            /\ UnfinishedRuns(s) = 1 <=> service_tasks[s] = "running")
    /\ [][\A s \in Services :
            (Spawns(s) /\ busPc # "start") =>
               /\ busPc = "backoff"
               /\ completed_services # <<>>
               /\ Head(completed_services) = s
               /\ service_tasks[s] = "absent"
               /\ UnfinishedRuns(s) = 0]_vars

\* a service on its third run task: two have returned and were replaced
C36_Witness ==
    \E s \in Services :
        /\ run_spawns[s] = 3
        /\ exits[s] = 2
        /\ service_tasks[s] = "running"

\* C37: after every supervision step the attempt count the Bus keeps for a
\* service equals the attempt counter inside the service's
\* ExponentialBackoff, the number of next_delay calls since its last reset
C37_AttemptCountMatchesBackoff ==
    \A s \in Services : attempt_counters[s] = backoff_state[s]

\* the Bus is handling the exited services of one loop pass
Supervising == busPc \in {"supervise", "backoff"}

\* the delays next_delay may have returned for the service at its last call
OwnDelays(s) == {NextDelay(backoff_state[s] - 1, jitter) : jitter \in Jitters}

\* C38: the backoff sleep runs inside the Bus loop. While the Bus handles
\* the exited services of a loop pass, asleep or between two sleeps, it
\* takes no event and no command off the channels and calls no on_event
\* and no handle_command; the sleep under way is that of the service at
\* the head of completed_services, with a delay next_delay returned for
\* that service; it ends by restarting that service and no other, or by
\* cancellation; and the Bus is back at its select only when every service
\* found in the pass has had its turn
C38_BackoffSleepBlocksTheLoop ==
    /\ [](busPc = "backoff" =>
            /\ completed_services # <<>>
            /\ delay \in OwnDelays(Head(completed_services)))
    /\ [](busPc = "select" => completed_services = <<>>)
    /\ [][Supervising =>
            /\ UNCHANGED << dispatched, pass, on_event_calls, handled >>
            /\ Len(evt_rx') >= Len(evt_rx)
            /\ Len(cmd_rx') >= Len(cmd_rx)
            /\ busPc' # "dispatch"]_vars
    /\ [][busPc = "backoff" =>
            /\ \A s \in Services : Spawns(s) => s = Head(completed_services)
            /\ busPc' # "backoff" =>
                  /\ completed_services' = Tail(completed_services)
                  /\ Spawns(Head(completed_services)) \/ cancel]_vars

\* the Bus sleeps before restarting the first of two services found exited
\* in the same pass
C38_Witness ==
    /\ busPc = "backoff"
    /\ Len(completed_services) = 2
    /\ delay > 0
    /\ \A s \in Services : service_tasks[s] = "absent"

\* =================================================== the other components
\* the Bus as constructed and never run, for the specifications that study
\* one component on its own
BusAtRest ==
    /\ limits = [events |-> 0, commands |-> 0, exits |-> 0]
    /\ exits = [s \in Services |-> 0]
    /\ cancel = FALSE
    /\ busPc = "start"
    /\ busResult = "none"
    /\ service_middlewares = ("s1" :> <<>>)
    /\ service_tasks = [s \in Services |-> "absent"]
    /\ run_spawns = [s \in Services |-> 0]
    /\ completed_services = <<>>
    /\ attempt_count = 0
    /\ attempt_counters = [s \in Services |-> 0]
    /\ backoff_state = [s \in Services |-> 0]
    /\ next_delay_calls = [s \in Services |-> 0]
    /\ connection_start_times = [s \in Services |-> "unset"]
    /\ delay = 0
    /\ middleware_handles = <<>>
    /\ evt_rx = <<>>
    /\ evt_closed = FALSE
    /\ events_sent = 0
    /\ dispatched = <<>>
    /\ pass = NoPass
    /\ on_event_calls = [s \in Services |-> 0]
    /\ cmd_rx = <<>>
    /\ cmd_closed = FALSE
    /\ commands_sent = 0
    /\ handled = [s \in Services |-> <<>>]

\* =========================================== ExponentialBackoff (config.rs)
\* Durations are in milliseconds, multiplier in tenths, jitter_factor per
\* mille.  The configuration is whatever the environment holds: an initial
\* delay above the maximum, a multiplier below one, a jitter factor above
\* one or below zero are all accepted by the deserializer.
ReconnectionConfigs ==
    [ initial_delay : {0, 1000, 9000},
      max_delay : {1000, 60000},
      multiplier : {5, 10, 20, 30},
      jitter_factor : {0 - 100, 0, 100, 1500} ]

\* next_delay calls made on one ExponentialBackoff between two resets
MaxAttempts == 7

\* the attempt multiplied in, not raised to
base_delay_times_attempt(config, n) ==
    (config.initial_delay * config.multiplier * n) \div 10

\* initial_delay * multiplier.powi(attempt), line 156-157
RECURSIVE base_delay_secs(_, _)
base_delay_secs(config, n) ==
    IF n = 0 THEN config.initial_delay
    ELSE (base_delay_secs(config, n - 1) * config.multiplier) \div 10

\* the cap left out
capped_delay_uncapped(config, n) == base_delay_secs(config, n)

\* line 158
capped_delay_secs(config, n) == Min(base_delay_secs(config, n), config.max_delay)

\* rng.gen_range(-jitter_factor..=jitter_factor), line 164: the ends of the
\* range, its middle and two values between
JitterSamples(jitter_factor) ==
    { 0 - jitter_factor, 0 - (jitter_factor \div 2), 0,
      jitter_factor \div 2, jitter_factor }

\* lines 166 and 169
final_delay_secs(capped, sample) == Max((capped * (1000 + sample)) \div 1000, 0)

BackoffInit ==
    /\ BusAtRest
    /\ MwAtRest
    /\ BuildAtRest
    /\ RelayAtRest
    /\ ChatAtRest
    /\ ReplyAtRest
    /\ backoff \in [config : ReconnectionConfigs, attempt : {0}]
    /\ returned = NoDelay

\* ExponentialBackoff::next_delay, lines 155-170; gen_range panics on an
\* empty range, which is what a negative jitter_factor gives it
BackoffNextDelay ==
    /\ backoff.attempt < MaxAttempts
    /\ ~returned.panicked
    /\ IF backoff.config.jitter_factor < 0
       THEN /\ returned' = [returned EXCEPT !.panicked = TRUE]
            /\ backoff' = backoff
       ELSE /\ \E sample \in JitterSamples(backoff.config.jitter_factor) :
                 returned' =
                    [base |-> base_delay_secs(backoff.config, backoff.attempt),
                     capped |-> capped_delay_secs(backoff.config, backoff.attempt),
                     final |-> final_delay_secs(
                                  capped_delay_secs(backoff.config, backoff.attempt),
                                  sample),
                     panicked |-> FALSE,
                     called |-> TRUE]
            /\ backoff' = [backoff EXCEPT !.attempt = backoff.attempt + 1]
    /\ UNCHANGED outsideBackoff

\* ExponentialBackoff::reset, lines 172-174
BackoffReset ==
    /\ ~returned.panicked
    /\ backoff.attempt > 0
    /\ backoff' = [backoff EXCEPT !.attempt = 0]
    /\ UNCHANGED returned
    /\ UNCHANGED outsideBackoff

BackoffNext == BackoffNextDelay \/ BackoffReset

BackoffSpec == BackoffInit /\ [][BackoffNext]_vars

\* C13: every delay next_delay returns lies between 0 and
\* max_delay * (1 + jitter_factor), and the value the jitter is applied to
\* is at most max_delay, whatever the attempt number and the configuration
C13_DelayWithinBounds ==
    returned.called =>
        /\ returned.capped <= backoff.config.max_delay
        /\ returned.final >= 0
        /\ returned.final <=
              (backoff.config.max_delay * (1000 + backoff.config.jitter_factor)) \div 1000

\* a call whose uncapped base is above max_delay, with upward jitter
C13_Witness ==
    /\ returned.called
    /\ returned.base > backoff.config.max_delay
    /\ returned.final > backoff.config.max_delay
    /\ backoff.attempt > 1

\* the configuration of the defaults, config.rs lines 128-142
IsDefaultConfig ==
    backoff.config = [initial_delay |-> 1000, max_delay |-> 60000,
                      multiplier |-> 20, jitter_factor |-> 100]

\* 1 s, 2 s, 4 s, ... capped at 60 s, in milliseconds
DefaultBases == << 1000, 2000, 4000, 8000, 16000, 32000, 60000, 60000, 60000 >>

\* initial_delay x multiplier^k, the multiplier being in tenths: a whole
\* multiplier raised and multiplied in, the multiplier one half divided out
Scaled(config, k) ==
    IF config.multiplier >= 10
    THEN config.initial_delay * Pow(config.multiplier \div 10, k)
    ELSE config.initial_delay \div Pow(10 \div config.multiplier, k)

\* the call that has just returned was the n-th since the last reset
NthCall(n) == returned.called /\ backoff.attempt = n /\ n >= 1

\* C28: without a reset between them, the n-th consecutive next_delay call
\* has the base min(initial_delay x multiplier^(n-1), max_delay) before the
\* jitter; with the defaults the bases are 1 s, 2 s, 4 s, ... capped at
\* 60 s, and never decrease from one call to the next
C28_BaseOfNthRestart ==
    /\ [](\A n \in 1..(MaxAttempts + 1) :
            NthCall(n) =>
               /\ returned.capped
                     = Min(Scaled(backoff.config, n - 1), backoff.config.max_delay)
               /\ IsDefaultConfig => returned.capped = DefaultBases[n])
    /\ [][(IsDefaultConfig /\ backoff.attempt >= 1
             /\ backoff'.attempt = backoff.attempt + 1)
            => returned'.capped >= returned.capped]_vars

\* the seventh consecutive call with the defaults: 64 s capped to 60 s
C28_Witness ==
    /\ IsDefaultConfig
    /\ NthCall(7)
    /\ returned.base = 64000
    /\ returned.capped = 60000

\* ======================================= AttendanceRelay (attendance_relay.rs)
\* on_event calls made on the relay in one run
MaxUpdates == 5
\* on_event calls in a run whose tasks overlap, and how many overlap
MaxBurst == 3
MaxPending == 3

\* what the environment does in one run: events that arrive one after
\* another, each after the task of the one before has finished; or a burst
\* of events whose tasks are pending together
RelayScenarios ==
    { [updates |-> MaxUpdates, pending |-> 1, log |-> FALSE],
      [updates |-> MaxBurst, pending |-> MaxPending, log |-> FALSE] }

\* on_event calls in a run that keeps the event of every call in its log
MaxLogged == 3
LoggedScenarios == { [updates |-> MaxLogged, pending |-> MaxLogged, log |-> TRUE] }

SourceService == "mumble"
OtherService == "matrix"

User(display_name, is_self, is_active) ==
    [display_name |-> display_name, is_self |-> is_self, is_active |-> is_active]

\* the user lists of the UserListUpdate events explored: the rosters of one
\* session, a list with only the bot and an inactive user, and a list with
\* the bot and an inactive user next to an active user
UserLists ==
    { {},
      {User("Alice", FALSE, TRUE)},
      {User("Alice", FALSE, TRUE), User("Bob", FALSE, TRUE)},
      {User("Bob", FALSE, TRUE)},
      {User("Kelvin", TRUE, TRUE), User("Alice", FALSE, FALSE)},
      {User("Kelvin", TRUE, TRUE), User("Alice", FALSE, FALSE),
       User("Bob", FALSE, TRUE)} }

RelayEvents ==
    [service_id : {SourceService}, kind : {"UserListUpdate"}, users : UserLists]
    \cup [service_id : {OtherService}, kind : {"UserListUpdate"},
          users : {{User("Alice", FALSE, TRUE)}}]
    \cup [service_id : {SourceService}, kind : {"RoomMessage"}, users : {{}}]

\* the bot's own entry counted like any other
CurrentActiveWithSelf(users) ==
    {u.display_name : u \in {v \in users : v.is_active}}

\* lines 124-128
CurrentActive(users) ==
    {u.display_name : u \in {v \in users : ~v.is_self /\ v.is_active}}

\* sorted.sort(): the order of the display names
NameOrder == <<"Alice", "Bob", "Kelvin">>
SortedNames(names) == SelectSeq(NameOrder, LAMBDA n : n \in names)

\* format_live_message, lines 383-394
format_live_message(participants) ==
    [text |-> "session_start_message", list |-> SortedNames(participants)]
\* the live message edited to the roster once more instead of the ended text
ended_edit_body_as_roster == format_live_message(active_participants)

\* line 348
ended_edit_body == [text |-> "session_ended_edit_message", list |-> <<>>]
\* the summary of those still there at the end
format_session_summary_of_active(participants) ==
    [text |-> "session_end_message", list |-> SortedNames(active_participants)]

\* format_session_summary, lines 396-419
format_session_summary(participants) ==
    [text |-> "session_end_message", list |-> SortedNames(participants)]

\* the configured destination, lines 133-136
RelayDest == [service_id |-> "matrix", room_id |-> "lobby"]

SendRoomMessage(body, with_reply) ==
    [kind |-> "SendRoomMessage", service_id |-> RelayDest.service_id,
     room_id |-> RelayDest.room_id, body |-> body, message_id |-> NoMessage,
     response_tx |-> with_reply]
EditMessage(message_id, body) ==
    [kind |-> "EditMessage", service_id |-> RelayDest.service_id,
     room_id |-> "None", body |-> body, message_id |-> message_id,
     response_tx |-> FALSE]

DoneTask == [current_active |-> {}, pc |-> "done"]
Unfinished == {t \in 1..Len(relay_tasks) : relay_tasks[t].pc # "done"}
Inside == {t \in 1..Len(relay_tasks) :
              relay_tasks[t].pc \in {"await_start", "await_update", "end_summary"}}

\* the inputs of one session, applied one after another
SessionScript == << {}, {"Alice"}, {"Alice", "Bob"}, {"Bob"}, {} >>

FollowsScript(current_active) ==
    IF /\ script_pos >= 0
       /\ script_pos < Len(SessionScript)
       /\ Unfinished = {}
       /\ ~relay_rx_dropped
       /\ current_active = SessionScript[script_pos + 1]
    THEN script_pos + 1
    ELSE 0 - 1

RelayInit ==
    /\ BusAtRest
    /\ MwAtRest
    /\ BuildAtRest
    /\ BackoffAtRest
    /\ ChatAtRest
    /\ ReplyAtRest
    /\ relay_limits \in RelayScenarios
    /\ RelayConstructed

\* the filter that lets every UserListUpdate through, whatever its service
HandlesAnyService(event) == event.kind = "UserListUpdate"

\* the filters of on_event, lines 103-110
Handles(event) ==
    event.service_id = SourceService /\ event.kind = "UserListUpdate"

\* the call as the log keeps it: the verdict, and in the runs that log
\* their events the event and the task spawned for it (0: none)
Unlogged == [service_id |-> "None", kind |-> "None", users |-> {}]
Logged(event) ==
    IF relay_limits.log
    THEN [verdict |-> "Continue", event |-> event,
          task |-> IF Handles(event) THEN Len(relay_tasks) + 1 ELSE 0]
    ELSE [verdict |-> "Continue", event |-> Unlogged, task |-> 0]

\* AttendanceRelay::on_event, lines 101-161; the Bus calls it, and the Bus
\* owns the command Receiver, so it is not called once that is dropped
RelayOnEvent(event) ==
    /\ Len(relay_verdicts) < relay_limits.updates
    /\ ~relay_rx_dropped
    /\ relay_verdicts' = Append(relay_verdicts, Logged(event))
    /\ IF ~Handles(event)
       THEN UNCHANGED << relay_tasks, script_pos >>
       ELSE /\ Cardinality(Unfinished) < relay_limits.pending
            /\ relay_tasks' = Append(relay_tasks,
                                 [current_active |-> CurrentActive(event.users),
                                  pc |-> "spawned"])
            /\ script_pos' = FollowsScript(CurrentActive(event.users))
    /\ UNCHANGED << relay_limits, is_session_active, active_participants,
                    all_participants, session_start_time, live_message_id, state_lock,
                    relay_cmds, relay_rx_dropped, reordered, last_transition >>
    /\ UNCHANGED outsideRelay

\* the state Mutex taken by nobody
LockAlwaysAvailable == TRUE

\* state.lock().await, line 145
LockAvailable == state_lock = 0

\* the task is polled for the first time while a task spawned before it has
\* not taken the lock yet
Overtakes(t) == \E u \in 1..(t - 1) : relay_tasks[u].pc = "spawned"

\* the names in the inputs applied since the start of the session that is
\* under way after a transition of this kind
Seen(kind, current_active, still_active) ==
    IF kind = "start" THEN current_active
    ELSE IF kind = "update" THEN last_transition.seen \cup current_active
    ELSE IF kind = "end" /\ ~still_active THEN {}
    ELSE last_transition.seen

Finish(t, kind, reply) ==
    /\ relay_tasks' = [relay_tasks EXCEPT ![t] = DoneTask]
    /\ state_lock' = 0
    /\ last_transition' =
          [kind |-> kind, reply |-> reply,
           current_active |-> relay_tasks[t].current_active,
           seen |-> Seen(kind, relay_tasks[t].current_active, is_session_active')]

Suspend(t, pc) ==
    /\ relay_tasks' = [relay_tasks EXCEPT ![t].pc = pc]
    /\ state_lock' = t
    /\ UNCHANGED last_transition

Faulted == script_pos' = 0 - 1

\* (false, false), lines 208-210
RelayNoChange(t) ==
    /\ t \in 1..Len(relay_tasks)
    /\ relay_tasks[t].pc = "spawned"
    /\ LockAvailable
    /\ ~is_session_active
    /\ relay_tasks[t].current_active = {}
    /\ reordered' = (reordered \/ Overtakes(t))
    /\ Finish(t, "none", NoMessage)
    /\ UNCHANGED << is_session_active, active_participants, all_participants,
                    session_start_time, live_message_id, relay_cmds,
                    relay_rx_dropped, relay_verdicts, script_pos >>
    /\ UNCHANGED << relay_limits, outsideRelay >>

\* handle_session_start up to the await of the reply, lines 216-244
RelaySessionStart(t) ==
    /\ t \in 1..Len(relay_tasks)
    /\ relay_tasks[t].pc = "spawned"
    /\ LockAvailable
    /\ ~is_session_active
    /\ relay_tasks[t].current_active # {}
    /\ reordered' = (reordered \/ Overtakes(t))
    /\ is_session_active' = TRUE
    /\ session_start_time' = "Some"
    /\ active_participants' = relay_tasks[t].current_active
    /\ all_participants' = relay_tasks[t].current_active
    /\ IF relay_rx_dropped
       THEN /\ Finish(t, "start", NoMessage)
            /\ Faulted
            /\ UNCHANGED relay_cmds
       ELSE /\ relay_cmds' = Append(relay_cmds,
                 SendRoomMessage(format_live_message(relay_tasks[t].current_active), TRUE))
            /\ Suspend(t, "await_start")
            /\ UNCHANGED script_pos
    /\ UNCHANGED << live_message_id, relay_rx_dropped, relay_verdicts >>
    /\ UNCHANGED << relay_limits, outsideRelay >>

\* what response_rx.await yields: a message id, an error of the service, or
\* the handle dropped unfulfilled
ReplyOutcomes == {"id", "error", "dropped"}

\* the id the service gave the message: one per message sent
FreshMessageId == Len(relay_cmds)

\* the id of the reply not stored
AfterReplyDiscards(t, kind, outcome) ==
    /\ UNCHANGED live_message_id
    /\ Finish(t, kind, IF outcome = "id" THEN FreshMessageId ELSE NoMessage)
    /\ IF outcome = "id" THEN UNCHANGED script_pos ELSE Faulted
    /\ UNCHANGED << is_session_active, active_participants, all_participants,
                    session_start_time, relay_cmds, relay_rx_dropped,
                    relay_verdicts, reordered >>
    /\ UNCHANGED << relay_limits, outsideRelay >>

\* lines 247-258 and 312-323
AfterReply(t, kind, outcome) ==
    /\ IF outcome = "id"
       THEN /\ live_message_id' = FreshMessageId
            /\ Finish(t, kind, FreshMessageId)
            /\ UNCHANGED script_pos
       ELSE /\ UNCHANGED live_message_id
            /\ Finish(t, kind, NoMessage)
            /\ Faulted
    /\ UNCHANGED << is_session_active, active_participants, all_participants,
                    session_start_time, relay_cmds, relay_rx_dropped,
                    relay_verdicts, reordered >>
    /\ UNCHANGED << relay_limits, outsideRelay >>

\* handle_session_start from the reply on, lines 247-260
RelayStartReply(t) ==
    /\ t \in 1..Len(relay_tasks)
    /\ relay_tasks[t].pc = "await_start"
    /\ \E outcome \in ReplyOutcomes : AfterReply(t, "start", outcome)

\* the live message treated as never sent
HasLiveMessageNever(id) == FALSE

\* the test of line 277 the wrong way round
HasLiveMessageInverted(id) == id = NoMessage

\* line 277
HasLiveMessage(id) == id # NoMessage

\* all_participants left as it was
InsertAllKept(all, current_active) == all

\* lines 271-273
InsertAll(all, current_active) == all \cup current_active

\* handle_session_update up to the await of the reply, lines 263-309
RelaySessionUpdate(t) ==
    /\ t \in 1..Len(relay_tasks)
    /\ relay_tasks[t].pc = "spawned"
    /\ LockAvailable
    /\ is_session_active
    /\ relay_tasks[t].current_active # {}
    /\ reordered' = (reordered \/ Overtakes(t))
    /\ all_participants' = InsertAll(all_participants, relay_tasks[t].current_active)
    /\ active_participants' = relay_tasks[t].current_active
    /\ IF relay_rx_dropped
       THEN /\ Finish(t, "update", NoMessage)
            /\ Faulted
            /\ UNCHANGED relay_cmds
       ELSE IF HasLiveMessage(live_message_id)
       THEN /\ relay_cmds' = Append(relay_cmds,
                 EditMessage(live_message_id,
                             format_live_message(relay_tasks[t].current_active)))
            /\ Finish(t, "update", NoMessage)
            /\ UNCHANGED script_pos
       ELSE /\ relay_cmds' = Append(relay_cmds,
                 SendRoomMessage(format_live_message(relay_tasks[t].current_active), TRUE))
            /\ Suspend(t, "await_update")
            /\ UNCHANGED script_pos
    /\ UNCHANGED << is_session_active, session_start_time, live_message_id,
                    relay_rx_dropped, relay_verdicts >>
    /\ UNCHANGED << relay_limits, outsideRelay >>

\* handle_session_update from the reply on, lines 312-326
RelayUpdateReply(t) ==
    /\ t \in 1..Len(relay_tasks)
    /\ relay_tasks[t].pc = "await_update"
    /\ \E outcome \in ReplyOutcomes : AfterReply(t, "update", outcome)

\* handle_session_end up to the send of the summary, lines 329-358
RelaySessionEnd(t) ==
    /\ t \in 1..Len(relay_tasks)
    /\ relay_tasks[t].pc = "spawned"
    /\ LockAvailable
    /\ is_session_active
    /\ relay_tasks[t].current_active = {}
    /\ reordered' = (reordered \/ Overtakes(t))
    /\ UNCHANGED << is_session_active, active_participants, all_participants,
                    session_start_time, live_message_id, relay_rx_dropped,
                    relay_verdicts >>
    /\ IF HasLiveMessage(live_message_id) /\ relay_rx_dropped
       THEN /\ Finish(t, "end", NoMessage)
            /\ Faulted
            /\ UNCHANGED relay_cmds
       ELSE /\ relay_cmds' =
                 IF HasLiveMessage(live_message_id)
                 THEN Append(relay_cmds, EditMessage(live_message_id, ended_edit_body))
                 ELSE relay_cmds
            /\ Suspend(t, "end_summary")
            /\ UNCHANGED script_pos
    /\ UNCHANGED << relay_limits, outsideRelay >>

\* the reset that leaves the session marked active
SessionResetStillActive ==
    [is_session_active |-> TRUE, active_participants |-> {}, all_participants |-> {},
     session_start_time |-> "None", live_message_id |-> NoMessage]

\* the reset that leaves the live message id
SessionResetKeepsLive ==
    [is_session_active |-> FALSE, active_participants |-> {}, all_participants |-> {},
     session_start_time |-> "None", live_message_id |-> live_message_id]

\* the reset that clears the flag and nothing else
SessionResetFlagOnly ==
    [is_session_active |-> FALSE, active_participants |-> active_participants,
     all_participants |-> all_participants,
     session_start_time |-> session_start_time, live_message_id |-> live_message_id]

\* lines 373-378
SessionReset ==
    [is_session_active |-> FALSE, active_participants |-> {}, all_participants |-> {},
     session_start_time |-> "None", live_message_id |-> NoMessage]

\* the state reset before the summary is sent, so also when its send fails
RelayEndSummaryResetsFirst(t) ==
    /\ t \in 1..Len(relay_tasks)
    /\ relay_tasks[t].pc = "end_summary"
    /\ is_session_active' = SessionReset.is_session_active
    /\ active_participants' = SessionReset.active_participants
    /\ all_participants' = SessionReset.all_participants
    /\ session_start_time' = SessionReset.session_start_time
    /\ live_message_id' = SessionReset.live_message_id
    /\ IF relay_rx_dropped
       THEN /\ Faulted
            /\ UNCHANGED relay_cmds
       ELSE /\ relay_cmds' = Append(relay_cmds,
                 SendRoomMessage(format_session_summary(all_participants), FALSE))
            /\ UNCHANGED script_pos
    /\ Finish(t, "end", NoMessage)
    /\ UNCHANGED << relay_rx_dropped, relay_verdicts, reordered >>
    /\ UNCHANGED << relay_limits, outsideRelay >>

\* handle_session_end from the send of the summary on, lines 360-380
RelayEndSummary(t) ==
    /\ t \in 1..Len(relay_tasks)
    /\ relay_tasks[t].pc = "end_summary"
    /\ IF relay_rx_dropped
       THEN /\ Faulted
            /\ UNCHANGED << relay_cmds, is_session_active, active_participants,
                            all_participants, session_start_time, live_message_id >>
       ELSE /\ relay_cmds' = Append(relay_cmds,
                 SendRoomMessage(format_session_summary(all_participants), FALSE))
            /\ is_session_active' = SessionReset.is_session_active
            /\ active_participants' = SessionReset.active_participants
            /\ all_participants' = SessionReset.all_participants
            /\ session_start_time' = SessionReset.session_start_time
            /\ live_message_id' = SessionReset.live_message_id
            /\ UNCHANGED script_pos
    /\ Finish(t, "end", NoMessage)
    /\ UNCHANGED << relay_rx_dropped, relay_verdicts, reordered >>
    /\ UNCHANGED << relay_limits, outsideRelay >>

\* the Bus has returned: the command Receiver is dropped
RelayDropReceiver ==
    /\ ~relay_rx_dropped
    /\ relay_rx_dropped' = TRUE
    /\ UNCHANGED << is_session_active, active_participants, all_participants,
                    session_start_time, live_message_id, state_lock, relay_tasks,
                    relay_cmds, relay_verdicts, reordered, last_transition,
                    script_pos >>
    /\ UNCHANGED << relay_limits, outsideRelay >>

RelayNext ==
    \/ \E event \in RelayEvents : RelayOnEvent(event)
    \/ \E t \in 1..MaxUpdates : RelayNoChange(t)
    \/ \E t \in 1..MaxUpdates : RelaySessionStart(t)
    \/ \E t \in 1..MaxUpdates : RelayStartReply(t)
    \/ \E t \in 1..MaxUpdates : RelaySessionUpdate(t)
    \/ \E t \in 1..MaxUpdates : RelayUpdateReply(t)
    \/ \E t \in 1..MaxUpdates : RelaySessionEnd(t)
    \/ \E t \in 1..MaxUpdates : RelayEndSummary(t)
    \/ RelayDropReceiver

RelaySpec == RelayInit /\ [][RelayNext]_vars

\* the same relay in the runs that log their events
RelayLogInit ==
    /\ BusAtRest
    /\ MwAtRest
    /\ BuildAtRest
    /\ BackoffAtRest
    /\ ChatAtRest
    /\ ReplyAtRest
    /\ relay_limits \in LoggedScenarios
    /\ RelayConstructed

RelayLogSpec == RelayLogInit /\ [][RelayNext]_vars

\* ------------------------------------------------ AttendanceRelay: claims
\* no transition is under way: the state is as a transition left it
BetweenTransitions == state_lock = 0

\* C14: at the end of every transition, whatever the updates were and
\* however the sends and replies went, the session is marked active exactly
\* when active_participants is not empty
C14_ActiveIffParticipants ==
    BetweenTransitions => (is_session_active <=> active_participants # {})

\* a session end whose send failed: the session is still active
C14_Witness ==
    /\ BetweenTransitions
    /\ last_transition.kind = "end"
    /\ is_session_active
    /\ active_participants # {}

\* C15: between transitions active_participants is a subset of
\* all_participants
C15_ActiveSubsetOfAll ==
    BetweenTransitions => active_participants \subseteq all_participants

\* an update after which somebody who took part is no longer active
C15_Witness ==
    /\ BetweenTransitions
    /\ last_transition.kind = "update"
    /\ active_participants # {}
    /\ active_participants # all_participants

\* C16: between transitions, a live_message_id that is set belongs to an
\* active session; none is left behind by a session end
C16_LiveMessageOnlyWhileActive ==
    BetweenTransitions => (HasLiveMessage(live_message_id) => is_session_active)

\* a session that had a live message has ended
C16_Witness ==
    /\ BetweenTransitions
    /\ last_transition.kind = "end"
    /\ ~is_session_active
    /\ live_message_id = NoMessage
    /\ \E i \in 1..Len(relay_cmds) : relay_cmds[i].kind = "EditMessage"

\* the commands of one session that follows SessionScript, the roster send
\* being answered with the id of the message
ScriptCommands ==
    << SendRoomMessage(format_live_message({"Alice"}), TRUE),
       EditMessage(1, format_live_message({"Alice", "Bob"})),
       EditMessage(1, format_live_message({"Bob"})),
       EditMessage(1, ended_edit_body),
       SendRoomMessage(format_session_summary({"Alice", "Bob"}), FALSE) >>
\* how many of them are out after each input of the script
ScriptCommandCount == << 0, 1, 2, 3, 5 >>

\* C17: the updates {}, {Alice}, {Alice, Bob}, {Bob}, {} applied one after
\* another, with the roster send answered by a message id, put on the
\* command channel: the roster send, three edits (Alice and Bob; Bob; the
\* ended text) and the summary naming Alice and Bob, in this order; the
\* first {} puts nothing
C17_SessionCommandSequence ==
    (script_pos >= 1 /\ Unfinished = {}) =>
        relay_cmds = SubSeq(ScriptCommands, 1, ScriptCommandCount[script_pos])

\* the whole script has been applied
C17_Witness ==
    /\ script_pos = Len(SessionScript)
    /\ Unfinished = {}
    /\ Len(relay_cmds) = Len(ScriptCommands)

\* a task begins its transition
Begins(t) ==
    /\ t <= Len(relay_tasks)
    /\ relay_tasks[t].pc = "spawned"
    /\ relay_tasks'[t].pc # "spawned"

C18_HeldAcrossReply ==
    /\ Cardinality(Inside) <= 1
    /\ \A t \in Inside : state_lock = t
    /\ (/\ BetweenTransitions
        /\ last_transition.kind = "start"
        /\ last_transition.reply # NoMessage) => live_message_id = last_transition.reply

\* C18: the state Mutex is held for a whole transition, the await of the
\* roster send's reply included: no transition begins while another is
\* under way, and after a session start whose reply brought a message id
\* the next transition finds live_message_id set to that id
C18_MutexHeldForWholeTransition ==
    /\ []C18_HeldAcrossReply
    /\ [][\A t \in 1..MaxUpdates : Begins(t) => BetweenTransitions]_vars

\* a session start awaits its reply while a later task waits for the lock
C18_Witness ==
    \E t, u \in 1..Len(relay_tasks) :
        /\ relay_tasks[t].pc = "await_start"
        /\ relay_tasks[u].pc = "spawned"
        /\ state_lock = t

\* C19: the transitions take the state Mutex in the order in which their
\* events were given to on_event
C19_TransitionsInDispatchOrder == ~reordered

\* the task takes a step of a transition whose input is the input of the
\* transition that finished last
Reapplies(t) ==
    /\ t <= Len(relay_tasks)
    /\ relay_tasks[t].pc # "done"
    /\ relay_tasks'[t] # relay_tasks[t]
    /\ relay_tasks[t].current_active = last_transition.current_active

\* C25 as stated: a UserListUpdate applied again right after it was applied
\* leaves is_session_active, active_participants, all_participants,
\* session_start_time and live_message_id as they are
C25_RepeatedUpdateChangesNothing ==
    [][\A t \in 1..MaxUpdates :
          Reapplies(t) =>
             /\ is_session_active' = is_session_active
             /\ active_participants' = active_participants
             /\ all_participants' = all_participants
             /\ session_start_time' = session_start_time
             /\ live_message_id' = live_message_id]_vars

\* C25, amended: ... leaves is_session_active, active_participants,
\* all_participants and session_start_time as they are, and live_message_id
\* too when it is set; when it is unset in an active session the roster send
\* is retried and its reply may set it
C25_RepeatedUpdateKeepsSession ==
    [][\A t \in 1..MaxUpdates :
          Reapplies(t) =>
             /\ is_session_active' = is_session_active
             /\ active_participants' = active_participants
             /\ all_participants' = all_participants
             /\ session_start_time' = session_start_time
             /\ (live_message_id # NoMessage \/ ~is_session_active)
                   => live_message_id' = live_message_id]_vars

\* the same roster applied twice in a session with a live message: two
\* EditMessage with the same text one after the other, Alice having left
C25_Witness ==
    /\ BetweenTransitions
    /\ last_transition.kind = "update"
    /\ last_transition.current_active = {"Bob"}
    /\ all_participants = {"Alice", "Bob"}
    /\ \E k \in 1..(Len(relay_cmds) - 1) :
          /\ relay_cmds[k].kind = "EditMessage"
          /\ relay_cmds[k + 1].kind = "EditMessage"
          /\ relay_cmds[k + 1] = relay_cmds[k]
          /\ k + 1 = Len(relay_cmds)

\* a command was put on the channel in this step, and it is a summary
SummaryIssued ==
    /\ Len(relay_cmds') = Len(relay_cmds) + 1
    /\ relay_cmds'[Len(relay_cmds')].body.text = "session_end_message"

\* C26: every session end issues a summary SendRoomMessage to the
\* destination room, with or without a live message, and the summary lists
\* the display names of all the inputs applied from the start of that
\* session to its end, those who left before the end included, and no name
\* of an earlier session
C26_SummaryListsWholeSession ==
    /\ [][(is_session_active /\ ~is_session_active') => SummaryIssued]_vars
    /\ [][SummaryIssued =>
            LET summary == relay_cmds'[Len(relay_cmds')]
            IN  /\ is_session_active /\ ~is_session_active'
                /\ summary.kind = "SendRoomMessage"
                /\ summary.service_id = "matrix"
                /\ summary.room_id = "lobby"
                /\ summary.body.list
                      = SelectSeq(<< "Alice", "Bob", "Kelvin" >>,
                                  LAMBDA n : n \in last_transition.seen)]_vars

\* a second session, of Bob alone and without live message, has ended: its
\* summary names Bob only, the summary of the session before it named Alice
\* and Bob, Alice having left before its end
C26_Witness ==
    /\ BetweenTransitions
    /\ ~is_session_active
    /\ last_transition.kind = "end"
    /\ \E j, k \in 1..Len(relay_cmds) :
          /\ j < k
          /\ k = Len(relay_cmds)
          /\ relay_cmds[j].body = [text |-> "session_end_message",
                                   list |-> << "Alice", "Bob" >>]
          /\ relay_cmds[j - 1].kind = "SendRoomMessage"
          /\ relay_cmds[k].body = [text |-> "session_end_message",
                                   list |-> << "Bob" >>]
          /\ relay_cmds[k - 1].kind = "SendRoomMessage"
          /\ relay_cmds[k - 1].response_tx

\* the command is a roster send: a SendRoomMessage with a reply handle
IsRosterSend(c) == c.kind = "SendRoomMessage" /\ c.response_tx
\* the command is the summary of a session end
IsSummary(c) == c.kind = "SendRoomMessage" /\ ~c.response_tx

\* C29: every EditMessage carries the message id that the reply to the
\* latest roster send of the session under way returned (a service numbers
\* the messages it is sent, so the id is the place of that send among the
\* commands): there is such a send before the EditMessage, in the same
\* session, with nothing but EditMessage between the two; no EditMessage
\* is issued with live_message_id unset, none with the id of an earlier
\* session
C29_EditUsesLiveMessageOfSession ==
    /\ [](\A i \in 1..Len(relay_cmds) :
            relay_cmds[i].kind = "EditMessage" =>
               LET m == relay_cmds[i].message_id
               IN  /\ m # NoMessage
                   /\ m < i
                   /\ IsRosterSend(relay_cmds[m])
                   /\ \A j \in (m + 1)..(i - 1) : relay_cmds[j].kind = "EditMessage")
    /\ [][(Len(relay_cmds') > Len(relay_cmds)
             /\ relay_cmds'[Len(relay_cmds')].kind = "EditMessage")
            => /\ live_message_id # NoMessage
               /\ relay_cmds'[Len(relay_cmds')].message_id = live_message_id
               /\ is_session_active]_vars

\* the roster send of the session start failed, the retry at the next
\* update brought the id, and the update after that edits the message of
\* the retry
C29_Witness ==
    /\ Len(relay_cmds) = 3
    /\ IsRosterSend(relay_cmds[1])
    /\ IsRosterSend(relay_cmds[2])
    /\ relay_cmds[3].kind = "EditMessage"
    /\ relay_cmds[3].message_id = 2
    /\ live_message_id = 2

\* the tasks that await the reply to a roster send
AwaitingReply == {t \in 1..Len(relay_tasks) :
                     relay_tasks[t].pc \in {"await_start", "await_update"}}

\* the task gets the reply it awaited in this step
GetsReply(t) ==
    /\ t \in AwaitingReply
    /\ relay_tasks'[t].pc = "done"

\* the task begins an update in a session without live message, the command
\* channel being open
UpdatesWithoutLive(t) ==
    /\ Begins(t)
    /\ is_session_active
    /\ relay_tasks[t].current_active # {}
    /\ live_message_id = NoMessage
    /\ ~relay_rx_dropped

\* C30: when the reply to a roster send is an error or is dropped,
\* live_message_id stays unset and the session active; every later update
\* of the active session then sends the roster again as a SendRoomMessage
\* with a reply handle, not an EditMessage, until a reply brings a message
\* id, which is stored; at most one roster send awaits its reply at any time
C30_RosterSendRetriedUntilId ==
    /\ [](Cardinality(AwaitingReply) <= 1)
    /\ [][\A t \in 1..MaxUpdates :
            (t <= Len(relay_tasks) /\ GetsReply(t)) =>
               /\ live_message_id = NoMessage
               /\ is_session_active /\ is_session_active'
               /\ last_transition'.reply = NoMessage => live_message_id' = NoMessage
               /\ last_transition'.reply # NoMessage =>
                     live_message_id' = last_transition'.reply]_vars
    /\ [][\A t \in 1..MaxUpdates :
            UpdatesWithoutLive(t) =>
               /\ Len(relay_cmds') = Len(relay_cmds) + 1
               /\ relay_cmds'[Len(relay_cmds')].kind = "SendRoomMessage"
               /\ relay_cmds'[Len(relay_cmds')].response_tx
               /\ relay_tasks'[t].pc = "await_update"]_vars

\* the roster send of the start and its first retry failed, the second
\* retry brought the id of the live message
C30_Witness ==
    /\ BetweenTransitions
    /\ is_session_active
    /\ Len(relay_cmds) = 3
    /\ \A i \in 1..3 : relay_cmds[i].kind = "SendRoomMessage" /\ relay_cmds[i].response_tx
    /\ live_message_id = 3
    /\ last_transition.kind = "update"

\* the task sends the summary of a session end in this step
SendsSummary(t) ==
    /\ t <= Len(relay_tasks)
    /\ relay_tasks[t].pc = "end_summary"
    /\ Len(relay_cmds') = Len(relay_cmds) + 1

\* the state as SessionState::new() makes it, lines 60-66, after the step
InitialStateNext ==
    /\ ~is_session_active'
    /\ active_participants' = {}
    /\ all_participants' = {}
    /\ session_start_time' = "None"
    /\ live_message_id' = NoMessage

\* the task begins a transition with somebody active, right after a session
\* end that completed, the command channel being open
StartsAfterEnd(t) ==
    /\ Begins(t)
    /\ last_transition.kind = "end"
    /\ ~is_session_active
    /\ relay_tasks[t].current_active # {}
    /\ ~relay_rx_dropped

\* C31: at a session end with live_message_id set, the command placed right
\* before the summary SendRoomMessage is the EditMessage of that message
\* with the configured ended text; the step that places the summary leaves
\* the state as it was constructed (inactive, both participant sets empty,
\* no start time, no live_message_id); the next update with somebody active
\* starts a session and places a new SendRoomMessage with a reply handle
C31_EndEditsThenSummarisesThenResets ==
    /\ [][\A t \in 1..MaxUpdates :
            SendsSummary(t) =>
               /\ IsSummary(relay_cmds'[Len(relay_cmds')])
               /\ live_message_id # NoMessage =>
                     /\ Len(relay_cmds) >= 1
                     /\ relay_cmds[Len(relay_cmds)] =
                           EditMessage(live_message_id,
                              [text |-> "session_ended_edit_message", list |-> <<>>])
               /\ InitialStateNext]_vars
    /\ [][\A t \in 1..MaxUpdates :
            StartsAfterEnd(t) =>
               /\ is_session_active'
               /\ relay_cmds' = Append(relay_cmds,
                     SendRoomMessage(format_live_message(relay_tasks[t].current_active),
                                     TRUE))
               /\ relay_tasks'[t].pc = "await_start"]_vars

\* a session with a live message has ended with the edit and the summary,
\* and the next update has sent the roster of a new session
C31_Witness ==
    \E k \in 2..Len(relay_cmds) :
        /\ k + 2 = Len(relay_cmds)
        /\ relay_cmds[k].kind = "EditMessage"
        /\ relay_cmds[k].body.text = "session_ended_edit_message"
        /\ IsSummary(relay_cmds[k + 1])
        /\ IsRosterSend(relay_cmds[k + 2])
        /\ is_session_active

\* on_event is called in this step; the call as logged
OnEventCalled == Len(relay_verdicts') = Len(relay_verdicts) + 1
CalledWith == relay_verdicts'[Len(relay_verdicts')].event

SessionStateUnchanged ==
    UNCHANGED << is_session_active, active_participants, all_participants,
                 session_start_time, live_message_id >>

\* the event of the call that spawned the task
EventOf(t) ==
    relay_verdicts[CHOOSE i \in 1..Len(relay_verdicts) : relay_verdicts[i].task = t].event

\* no user of the list is active and somebody other than the bot
NoActiveNonSelf(users) == \A u \in users : u.is_self \/ ~u.is_active

\* C32: an on_event call with an event of another service, or of a kind
\* other than UserListUpdate, changes nothing of the session state, puts no
\* command and spawns no task; commands and state changes come from the
\* tasks only; and a task that finds no session active, spawned for a
\* UserListUpdate with no active user besides the bot, ends without a
\* command and without a state change
C32_FilteredEventsChangeNothing ==
    /\ [][OnEventCalled =>
            ((CalledWith.service_id # SourceService
                 \/ CalledWith.kind # "UserListUpdate") =>
                /\ SessionStateUnchanged
                /\ UNCHANGED << relay_cmds, relay_tasks, state_lock >>)]_vars
    /\ [][(relay_cmds' # relay_cmds \/ ~SessionStateUnchanged) =>
            \E t \in 1..MaxUpdates :
                /\ t <= Len(relay_tasks)
                /\ relay_tasks'[t] # relay_tasks[t]
                /\ EventOf(t).service_id = SourceService
                /\ EventOf(t).kind = "UserListUpdate"]_vars
    /\ [][\A t \in 1..MaxUpdates :
            (/\ Begins(t)
             /\ ~is_session_active
             /\ NoActiveNonSelf(EventOf(t).users)) =>
                /\ SessionStateUnchanged
                /\ UNCHANGED relay_cmds
                /\ relay_tasks'[t].pc = "done"]_vars

\* an event of the other service and a message of the source service were
\* given to on_event, and the task of a list with only the bot and an
\* inactive user has ended, with no session and no command
C32_Witness ==
    /\ \E i \in 1..Len(relay_verdicts) :
          /\ relay_verdicts[i].event.service_id = OtherService
          /\ relay_verdicts[i].task = 0
    /\ \E i \in 1..Len(relay_verdicts) :
          /\ relay_verdicts[i].event.kind = "RoomMessage"
          /\ relay_verdicts[i].task = 0
    /\ \E i \in 1..Len(relay_verdicts) :
          /\ relay_verdicts[i].event.users # {}
          /\ NoActiveNonSelf(relay_verdicts[i].event.users)
          /\ relay_verdicts[i].task # 0
          /\ relay_tasks[relay_verdicts[i].task].pc = "done"
    /\ ~is_session_active
    /\ relay_cmds = <<>>

\* the display names of the entries of the list that are active and not
\* the bot's own
ActiveOthers(users) ==
    {n \in {"Alice", "Bob", "Kelvin"} :
        \E u \in users : u.display_name = n /\ u.is_self = FALSE /\ u.is_active = TRUE}

\* the names that some update given to on_event listed as active and not
\* the bot's own
EverActiveOthers ==
    UNION {ActiveOthers(relay_verdicts[i].event.users) :
              i \in {k \in 1..Len(relay_verdicts) : relay_verdicts[k].task # 0}}

\* the names in the participant sets and in the lists of the commands
NamesShown ==
    active_participants \cup all_participants
       \cup UNION {{relay_cmds[i].body.list[k] : k \in 1..Len(relay_cmds[i].body.list)} :
                     i \in 1..Len(relay_cmds)}

\* C33: the transition of an update works on exactly the display names of
\* the update's entries with is_self = false and is_active = true: a
\* session start makes them active_participants and all_participants, a
\* session update makes them active_participants and adds them to
\* all_participants, the roster sent or edited lists them and nobody else,
\* and an update with none of them starts nothing; no name that comes only
\* from the bot's own entry or from inactive entries is in
\* active_participants, all_participants, a roster or a summary
C33_ParticipantsAreActiveOthers ==
    /\ [](NamesShown \subseteq EverActiveOthers)
    /\ []("Kelvin" \notin NamesShown)
    /\ [][\A t \in 1..MaxUpdates :
            Begins(t) =>
               LET names == ActiveOthers(EventOf(t).users)
               IN  /\ (names = {} /\ ~is_session_active) => ~is_session_active'
                   /\ (names # {}) =>
                         /\ is_session_active'
                         /\ active_participants' = names
                         /\ all_participants' =
                               IF is_session_active THEN all_participants \cup names
                               ELSE names
                         /\ ~relay_rx_dropped =>
                               relay_cmds'[Len(relay_cmds')].body =
                                  [text |-> "session_start_message",
                                   list |-> SortedNames(names)]]_vars

\* a session was started by the list of the bot, inactive Alice and active
\* Bob: Bob alone takes part and is on the roster
C33_Witness ==
    /\ \E i \in 1..Len(relay_verdicts) :
          /\ relay_verdicts[i].task = 1
          /\ Cardinality(relay_verdicts[i].event.users) = 3
    /\ relay_tasks[1].pc = "done"
    /\ last_transition.kind = "start"
    /\ active_participants = {"Bob"}
    /\ all_participants = {"Bob"}
    /\ Len(relay_cmds) = 1
    /\ relay_cmds[1].body.list = << "Bob" >>

\* the task begins a session end
BeginsEnd(t) ==
    /\ Begins(t)
    /\ is_session_active
    /\ relay_tasks[t].current_active = {}

\* the task is at a send of the session end and the send fails: the
\* EditMessage at the start of the transition, or the summary
EndSendFails(t) ==
    /\ relay_rx_dropped
    /\ \/ BeginsEnd(t) /\ live_message_id # NoMessage
       \/ /\ t <= Len(relay_tasks)
          /\ relay_tasks[t].pc = "end_summary"
          /\ relay_tasks'[t].pc = "done"

\* C40: a session end whose EditMessage or summary cannot be sent on the
\* command channel ends there, with nothing put on the channel and without
\* the reset: is_session_active, active_participants, all_participants,
\* session_start_time and live_message_id are what they were when the
\* transition began (a session end writes none of them before its reset),
\* and the session is still active
C40_FailedEndKeepsSession ==
    /\ [][\A t \in 1..MaxUpdates : BeginsEnd(t) => SessionStateUnchanged]_vars
    /\ [][\A t \in 1..MaxUpdates :
            EndSendFails(t) =>
               /\ SessionStateUnchanged
               /\ is_session_active'
               /\ active_participants' # {}
               /\ session_start_time' = "Some"
               /\ UNCHANGED relay_cmds
               /\ relay_tasks'[t].pc = "done"
               /\ state_lock' = 0]_vars

\* a session end put its EditMessage on the channel and failed to send the
\* summary: the session is active as before, with its live message
C40_Witness ==
    /\ BetweenTransitions
    /\ relay_rx_dropped
    /\ last_transition.kind = "end"
    /\ is_session_active
    /\ all_participants = {"Alice", "Bob"}
    /\ live_message_id # NoMessage
    /\ relay_cmds[Len(relay_cmds)] = EditMessage(live_message_id, ended_edit_body)

\* ================================================= ChatRelay (chat_relay.rs)
\* on_event calls made on the relay in one run
MaxChatEvents == 2

\* the configuration: source and destination; source_room_id is the variable
\* chat_source_room
ChatSource == "matrix"
ChatDest == [service_id |-> "mumble", room_id |-> "lobby"]
ChatPrefixTag == "MX"
ChatSourceRooms == {"None", "room1"}

ChatEvents ==
    [service_id : {"matrix", "mumble"}, kind : {"RoomMessage"},
     room_id : {"room1", "room2"}, is_self : BOOLEAN,
     sender_id : {"@al"}, sender_display_name : {"None", "Al"}, body : {"hi"}]
    \cup [service_id : {"matrix", "mumble"}, kind : {"DirectMessage"},
          room_id : {"None"}, is_self : BOOLEAN,
          sender_id : {"@al"}, sender_display_name : {"None"}, body : {"hi"}]
    \cup [service_id : {"matrix", "mumble"}, kind : {"UserListUpdate"},
          room_id : {"None"}, is_self : {FALSE},
          sender_id : {"None"}, sender_display_name : {"None"}, body : {"None"}]

\* the sender's id used even when a display name is present
format_relayed_message_id_only(prefix_tag, sender_id, sender_display_name, body) ==
    << "[", prefix_tag, "] ", sender_id, ": ", body >>

\* format_relayed_message, lines 43-51: "[{prefix_tag}] {name}: {body}"
format_relayed_message(prefix_tag, sender_id, sender_display_name, body) ==
    << "[", prefix_tag, "] ",
       IF sender_display_name # "None" THEN sender_display_name ELSE sender_id,
       ": ", body >>

\* lines 110-116
ChatCommand(event) ==
    [kind |-> "SendRoomMessage",
     service_id |-> ChatDest.service_id,
     room_id |-> ChatDest.room_id,
     body |-> format_relayed_message(ChatPrefixTag, event.sender_id,
                                     event.sender_display_name, event.body),
     markdown_body |-> format_relayed_message(ChatPrefixTag, event.sender_id,
                                              event.sender_display_name, event.body),
     response_tx |-> FALSE]

\* the bot's own messages let through
FromBotItselfNever(is_self) == FALSE

\* line 92
FromBotItself(is_self) == is_self

\* the filters of on_event, lines 71-95, in the order of the code
ChatForwards(event) ==
    IF event.service_id # ChatSource THEN FALSE
    ELSE IF event.kind # "RoomMessage" THEN FALSE
    ELSE IF chat_source_room # "None" /\ event.room_id # chat_source_room THEN FALSE
    ELSE IF FromBotItself(event.is_self) THEN FALSE
    ELSE TRUE

ChatInit ==
    /\ BusAtRest
    /\ MwAtRest
    /\ BuildAtRest
    /\ BackoffAtRest
    /\ RelayAtRest
    /\ ReplyAtRest
    /\ chat_source_room \in ChatSourceRooms
    /\ ChatConstructed

\* ChatRelay::on_event, lines 70-129; the Bus calls it, and the Bus owns the
\* command Receiver
ChatOnEvent(event) ==
    /\ Len(chat_calls) < MaxChatEvents
    /\ ~chat_rx_dropped
    /\ chat_calls' = Append(chat_calls,
                        [event |-> event, verdict |-> "Continue",
                         spawned |-> ChatForwards(event)])
    /\ chat_tasks' = IF ChatForwards(event)
                     THEN Append(chat_tasks, ChatCommand(event))
                     ELSE chat_tasks
    /\ UNCHANGED << chat_source_room, chat_cmds, chat_rx_dropped >>
    /\ UNCHANGED outsideChat

\* the spawned task, lines 109-126: cmd_tx.send, whose failure is logged
ChatTaskSend(i) ==
    /\ i \in 1..Len(chat_tasks)
    /\ chat_cmds' = IF chat_rx_dropped THEN chat_cmds
                    ELSE Append(chat_cmds, chat_tasks[i])
    /\ chat_tasks' = SubSeq(chat_tasks, 1, i - 1) \o
                     SubSeq(chat_tasks, i + 1, Len(chat_tasks))
    /\ UNCHANGED << chat_source_room, chat_calls, chat_rx_dropped >>
    /\ UNCHANGED outsideChat

\* the Bus has returned: the command Receiver is dropped
ChatDropReceiver ==
    /\ ~chat_rx_dropped
    /\ chat_rx_dropped' = TRUE
    /\ UNCHANGED << chat_source_room, chat_calls, chat_tasks, chat_cmds >>
    /\ UNCHANGED outsideChat

ChatNext ==
    \/ \E event \in ChatEvents : ChatOnEvent(event)
    \/ \E i \in 1..MaxChatEvents : ChatTaskSend(i)
    \/ ChatDropReceiver

ChatSpec == ChatInit /\ [][ChatNext]_vars

\* calls of on_event that spawned the sending task
ChatSpawned == {i \in 1..Len(chat_calls) : chat_calls[i].spawned}

\* C20: on_event emits a SendRoomMessage exactly for a RoomMessage of the
\* configured source service, in the configured source room when one is
\* configured, that is not the bot's own; never for an event with is_self
\* set; and it returns Continue whatever the event
C20_ChatRelayForwardsExactly ==
    /\ \A i \in 1..Len(chat_calls) :
          /\ chat_calls[i].verdict = "Continue"
          /\ chat_calls[i].spawned <=>
                /\ chat_calls[i].event.service_id = ChatSource
                /\ chat_calls[i].event.kind = "RoomMessage"
                /\ (chat_source_room = "None"
                      \/ chat_calls[i].event.room_id = chat_source_room)
                /\ ~chat_calls[i].event.is_self
          /\ chat_calls[i].event.is_self => ~chat_calls[i].spawned
    /\ \A j \in 1..Len(chat_cmds) : chat_cmds[j].kind = "SendRoomMessage"
    /\ Len(chat_cmds) + Len(chat_tasks) <= Cardinality(ChatSpawned)
    /\ ~chat_rx_dropped =>
          Len(chat_cmds) + Len(chat_tasks) = Cardinality(ChatSpawned)

\* the bot's own message in the source room was not forwarded, a user's was
\* and its command is on the channel
C20_Witness ==
    /\ chat_source_room = "room1"
    /\ \E i, j \in 1..Len(chat_calls) :
          /\ chat_calls[i].event.service_id = ChatSource
          /\ chat_calls[i].event.kind = "RoomMessage"
          /\ chat_calls[i].event.room_id = "room1"
          /\ chat_calls[i].event.is_self
          /\ ~chat_calls[i].spawned
          /\ chat_calls[j].spawned
    /\ Len(chat_cmds) = 1

\* the text the destination room is to show for an accepted event
ChatExpectedBody(event) ==
    << "[", ChatPrefixTag, "] ",
       IF event.sender_display_name = "None" THEN event.sender_id
       ELSE event.sender_display_name,
       ": ", event.body >>

\* the commands of the relay, sent or still held by their tasks
ChatIssued == chat_cmds \o chat_tasks

\* C21: every accepted event gives exactly one SendRoomMessage, to the
\* configured destination service and room, with body
\* "[{prefix_tag}] {name}: {body}" where name is the display name when there
\* is one and the sender id otherwise, with markdown_body equal to body and
\* without a reply handle; nothing else is issued (a command is lost only
\* with the command channel closed)
C21_OneCommandPerAcceptedEvent ==
    /\ \A j \in 1..Len(ChatIssued) :
          /\ ChatIssued[j].kind = "SendRoomMessage"
          /\ ChatIssued[j].service_id = "mumble"
          /\ ChatIssued[j].room_id = "lobby"
          /\ ChatIssued[j].markdown_body = ChatIssued[j].body
          /\ ChatIssued[j].response_tx = FALSE
    /\ \A event \in ChatEvents :
          LET issued_for == {j \in 1..Len(ChatIssued) :
                                ChatIssued[j].body = ChatExpectedBody(event)}
              accepted == {i \in ChatSpawned :
                              ChatExpectedBody(chat_calls[i].event)
                                  = ChatExpectedBody(event)}
          IN  /\ Cardinality(issued_for) <= Cardinality(accepted)
              /\ ~chat_rx_dropped =>
                    Cardinality(issued_for) = Cardinality(accepted)

\* two accepted messages, one of a sender with a display name and one of a
\* sender without, both on the command channel
C21_Witness ==
    /\ Len(chat_cmds) = 2
    /\ chat_tasks = <<>>
    /\ \E i, j \in 1..2 :
          /\ chat_cmds[i].body = << "[", "MX", "] ", "Al", ": ", "hi" >>
          /\ chat_cmds[j].body = << "[", "MX", "] ", "@al", ": ", "hi" >>

\* ============================ replies (bus.rs, dummy.rs, matrix.rs, mumble.rs)
\* A middleware sends a command, with or without a reply handle; the Bus
\* dequeues it and awaits handle_command of the target service inside its
\* select arm.  The Mumble service is modelled with its run task, because
\* handle_command and run share the state Mutex and two bounded channels.

\* commands sent in one run, one after the other
MaxIssued == 2
\* capacity of the event channel (1024 in main) and of the channel from
\* MumbleService::handle_command to run (32), scaled down
EventCapacity == 2
SendCapacity == 1

ReplyServices == {"dummy", "matrix", "mumble"}

\* the commands that can carry a reply handle
ReplyCommands ==
    [kind : {"SendDirectMessage", "SendRoomMessage"},
     service_id : ReplyServices \cup {UnknownService},
     response_tx : BOOLEAN]
    \cup [kind : {"GenerateInviteToken"},
          service_id : ReplyServices \cup {UnknownService},
          response_tx : {TRUE}]

IsSend(kind) == kind \in {"SendDirectMessage", "SendRoomMessage"}

\* the value a fulfilled reply carries
ReplyValue(kind) == IF IsSend(kind) THEN "id" ELSE "token"

ReplyInit ==
    /\ BusAtRest
    /\ MwAtRest
    /\ BuildAtRest
    /\ BackoffAtRest
    /\ RelayAtRest
    /\ ChatAtRest
    /\ ReplyAtRest

\* bus.rs lines 130-166: the services are spawned, the Bus enters its loop
ReplyStart ==
    /\ busPc = "start"
    /\ busPc' = "select"
    /\ mumble_run' = "connecting"
    /\ UNCHANGED << evt_rx, cmd_rx, issued, response, values_sent, hc, msg_tx,
                    state_holder, send_rx >>
    /\ UNCHANGED outsideReply

\* a middleware sends a command (cmd_tx.send) and, with a reply handle,
\* awaits response_rx; the next one is sent once this one is settled
MiddlewareIssue(command) ==
    /\ issued < MaxIssued
    /\ cmd_rx = <<>>
    /\ busPc = "select"
    /\ issued > 0 => hc.result # "none"
    /\ issued' = issued + 1
    /\ cmd_rx' = <<command>>
    /\ response' = IF command.response_tx THEN "pending" ELSE "none"
    /\ values_sent' = 0
    /\ hc' = NoCall
    /\ UNCHANGED << busPc, evt_rx, msg_tx, state_holder, mumble_run, send_rx >>
    /\ UNCHANGED outsideReply

\* bus.rs lines 266-281, the dispatch left out
ReplyRecvEvent ==
    /\ busPc = "select"
    /\ evt_rx # <<>>
    /\ evt_rx' = Tail(evt_rx)
    /\ UNCHANGED << busPc, cmd_rx >>
    /\ UNCHANGED replyVars
    /\ UNCHANGED outsideReply

\* the call that begins: bus.rs lines 282-295
Call(command) ==
    [service |-> command.service_id, kind |-> command.kind,
     with_reply |-> command.response_tx, result |-> "none", happy |-> FALSE]

\* handle_command has returned, or there was none to call: the command and
\* with it an unfulfilled reply handle are dropped (bus.rs lines 296-301)
Returned(command, result, happy, sent) ==
    /\ hc' = [Call(command) EXCEPT !.result = result, !.happy = happy]
    /\ response' = IF ~command.response_tx THEN "none"
                   ELSE IF sent = "nothing" THEN "dropped"
                   ELSE sent
    /\ values_sent' = IF command.response_tx /\ sent # "nothing"
                      THEN values_sent + 1 ELSE values_sent

\* bus.rs lines 299-301: no such service
BusHandleUnknown ==
    /\ busPc = "select"
    /\ cmd_rx # <<>>
    /\ Head(cmd_rx).service_id = UnknownService
    /\ cmd_rx' = Tail(cmd_rx)
    /\ Returned(Head(cmd_rx), "unknown_service", FALSE, "nothing")
    /\ UNCHANGED << busPc, evt_rx, issued, msg_tx, state_holder, mumble_run, send_rx >>
    /\ UNCHANGED outsideReply

\* DummyService::handle_command, dummy.rs lines 51-75
BusHandleDummy ==
    /\ busPc = "select"
    /\ cmd_rx # <<>>
    /\ Head(cmd_rx).service_id = "dummy"
    /\ cmd_rx' = Tail(cmd_rx)
    /\ Returned(Head(cmd_rx), "ok", TRUE, ReplyValue(Head(cmd_rx).kind))
    /\ UNCHANGED << busPc, evt_rx, issued, msg_tx, state_holder, mumble_run, send_rx >>
    /\ UNCHANGED outsideReply

\* how the Matrix backend answers: the id does not parse, the room is not
\* found or the request fails, or the message is sent
MatrixOutcomes(kind) ==
    IF IsSend(kind) THEN {"invalid_id", "backend_error", "sent"}
    ELSE {"backend_error", "sent"}

\* MatrixService::handle_command, matrix.rs lines 529-689: the result goes
\* to the reply handle and the call returns Ok(())
BusHandleMatrix ==
    /\ busPc = "select"
    /\ cmd_rx # <<>>
    /\ Head(cmd_rx).service_id = "matrix"
    /\ cmd_rx' = Tail(cmd_rx)
    /\ \E outcome \in MatrixOutcomes(Head(cmd_rx).kind) :
          Returned(Head(cmd_rx), "ok", outcome = "sent",
                   IF outcome = "sent" THEN ReplyValue(Head(cmd_rx).kind)
                   ELSE "error")
    /\ UNCHANGED << busPc, evt_rx, issued, msg_tx, state_holder, mumble_run, send_rx >>
    /\ UNCHANGED outsideReply

\* MumbleService::handle_command, mumble.rs lines 428-433 and 465-468: not
\* connected is an error; an invite is answered "not supported"; a send
\* goes on to the state Mutex
BusHandleMumble ==
    /\ busPc = "select"
    /\ cmd_rx # <<>>
    /\ Head(cmd_rx).service_id = "mumble"
    /\ cmd_rx' = Tail(cmd_rx)
    /\ IF msg_tx = "None"
       THEN /\ Returned(Head(cmd_rx), "err", FALSE, "nothing")
            /\ UNCHANGED busPc
       ELSE IF ~IsSend(Head(cmd_rx).kind)
       THEN /\ Returned(Head(cmd_rx), "ok", FALSE, "error")
            /\ UNCHANGED busPc
       ELSE /\ hc' = Call(Head(cmd_rx))
            /\ busPc' = "lock_state"
            /\ UNCHANGED << response, values_sent >>
    /\ UNCHANGED << evt_rx, issued, msg_tx, state_holder, mumble_run, send_rx >>
    /\ UNCHANGED outsideReply

\* the command of the call under way
Current == [kind |-> hc.kind, service_id |-> hc.service, response_tx |-> hc.with_reply]

\* mumble.rs lines 438-442 and 453-457: the state Mutex, then the lookup of
\* the user or channel, unknown being an error
MumbleLockState ==
    /\ busPc = "lock_state"
    /\ state_holder = "free"
    /\ \E known \in BOOLEAN :
          IF known
          THEN /\ state_holder' = "bus"
               /\ busPc' = "send_packet"
               /\ UNCHANGED << hc, response, values_sent >>
          ELSE /\ Returned(Current, "err", FALSE, "nothing")
               /\ busPc' = "select"
               /\ UNCHANGED state_holder
    /\ UNCHANGED << evt_rx, cmd_rx, issued, msg_tx, mumble_run, send_rx >>
    /\ UNCHANGED outsideReply

\* the reply handle of a sent message fulfilled with its id
MumbleRepliesWithId == "id"

\* mumble.rs lines 435 and 450: response_tx is not bound by the pattern and
\* nothing is sent on it
MumbleReplies == "nothing"

\* mumble.rs lines 448 and 463: tx.send(packet).await, under the state
\* Mutex; it fails when run has returned and waits while the channel is full
MumbleSendPacket ==
    /\ busPc = "send_packet"
    /\ mumble_run = "exited" \/ send_rx < SendCapacity
    /\ IF mumble_run = "exited"
       THEN /\ Returned(Current, "err", FALSE, "nothing")
            /\ UNCHANGED send_rx
       ELSE /\ Returned(Current, "ok", TRUE, MumbleReplies)
            /\ send_rx' = send_rx + 1
    /\ state_holder' = "free"
    /\ busPc' = "select"
    /\ UNCHANGED << evt_rx, cmd_rx, issued, msg_tx, mumble_run >>
    /\ UNCHANGED outsideReply

ReplyBus ==
    \/ ReplyStart
    \/ ReplyRecvEvent
    \/ BusHandleUnknown
    \/ BusHandleDummy
    \/ BusHandleMatrix
    \/ BusHandleMumble
    \/ MumbleLockState
    \/ MumbleSendPacket

\* MumbleService::run, mumble.rs lines 354-358: connect and authenticate,
\* which may fail, then publish the sender of a new channel
MumbleConnect ==
    /\ mumble_run = "connecting"
    /\ \E connected \in BOOLEAN :
          IF connected
          THEN /\ mumble_run' = "idle"
               /\ msg_tx' = "Some"
               /\ send_rx' = 0
          ELSE /\ mumble_run' = "exited"
               /\ UNCHANGED << msg_tx, send_rx >>
    /\ UNCHANGED << busPc, evt_rx, cmd_rx, issued, response, values_sent, hc,
                    state_holder >>
    /\ UNCHANGED outsideReply

\* lines 386-389: a packet of the server arrives; run goes for the state Mutex
MumblePacketIn ==
    /\ mumble_run = "idle"
    /\ mumble_run' = "want_state"
    /\ UNCHANGED << busPc, evt_rx, cmd_rx, issued, response, values_sent, hc,
                    msg_tx, state_holder, send_rx >>
    /\ UNCHANGED outsideReply

\* lines 389-390: the state Mutex, then handle_control_packet, which for
\* some packets goes on to emit_user_list_update
MumbleTakeState ==
    /\ mumble_run = "want_state"
    /\ state_holder = "free"
    /\ state_holder' = "run"
    /\ \E emits \in BOOLEAN :
          mumble_run' = IF emits THEN "emitting" ELSE "handling"
    /\ UNCHANGED << busPc, evt_rx, cmd_rx, issued, response, values_sent, hc,
                    msg_tx, send_rx >>
    /\ UNCHANGED outsideReply

\* lines 390-404 with emit_user_list_update, lines 197-216: the event is
\* sent under the state Mutex, waiting while the event channel is full; or
\* the packet needs no event
MumbleHandled ==
    /\ mumble_run \in {"handling", "emitting"}
    /\ IF mumble_run = "emitting"
       THEN /\ Len(evt_rx) < EventCapacity
            /\ evt_rx' = Append(evt_rx, [service_id |-> "mumble", id |-> 0])
       ELSE UNCHANGED evt_rx
    /\ state_holder' = "free"
    /\ mumble_run' = "idle"
    /\ UNCHANGED << busPc, cmd_rx, issued, response, values_sent, hc, msg_tx, send_rx >>
    /\ UNCHANGED outsideReply

\* lines 416-421: a packet of handle_command goes out to the server
MumbleForward ==
    /\ mumble_run = "idle"
    /\ send_rx > 0
    /\ send_rx' = send_rx - 1
    /\ UNCHANGED << busPc, evt_rx, cmd_rx, issued, response, values_sent, hc,
                    msg_tx, state_holder, mumble_run >>
    /\ UNCHANGED outsideReply

\* lines 406-413: the connection ends and run returns an error
MumbleDisconnect ==
    /\ mumble_run = "idle"
    /\ mumble_run' = "exited"
    /\ UNCHANGED << busPc, evt_rx, cmd_rx, issued, response, values_sent, hc,
                    msg_tx, state_holder, send_rx >>
    /\ UNCHANGED outsideReply

\* bus.rs lines 246-257: the supervision loop spawns run again
MumbleRestart ==
    /\ mumble_run = "exited"
    /\ busPc = "select"
    /\ mumble_run' = "connecting"
    /\ UNCHANGED << busPc, evt_rx, cmd_rx, issued, response, values_sent, hc,
                    msg_tx, state_holder, send_rx >>
    /\ UNCHANGED outsideReply

MumbleRun ==
    \/ MumbleConnect
    \/ MumbleTakeState
    \/ MumbleHandled
    \/ MumbleForward

\* another producer of the event channel sends an event
OtherEmit ==
    /\ busPc # "start"
    /\ Len(evt_rx) < EventCapacity
    /\ evt_rx' = Append(evt_rx, [service_id |-> "matrix", id |-> 0])
    /\ UNCHANGED << busPc, cmd_rx >>
    /\ UNCHANGED replyVars
    /\ UNCHANGED outsideReply

ReplyNext ==
    \/ ReplyBus
    \/ MumbleRun
    \/ MumblePacketIn
    \/ MumbleDisconnect
    \/ MumbleRestart
    \/ OtherEmit
    \/ \E command \in ReplyCommands : MiddlewareIssue(command)

ReplySpec == ReplyInit /\ [][ReplyNext]_vars

\* the Bus task and the run task are polled whenever they can go on, and
\* the tokio Mutex is fair: a task waiting for it gets it
FairReplySpec ==
    /\ ReplySpec
    /\ WF_vars(ReplyBus)
    /\ SF_vars(MumbleLockState)
    /\ WF_vars(MumbleRun)
    /\ SF_vars(MumbleTakeState)

\* the reply handle of the command under way is still unanswered
Awaited == hc.service # "none" /\ response = "pending"

\* C11: the awaiter of the reply of a command the Bus dequeued gets exactly
\* one outcome and gets it eventually: a value or an error sent by the
\* service, or "dropped" (handle_command returned without fulfilling the
\* handle, or the service is unknown); it never waits forever and never
\* gets two values
C11_ReplyObservedExactlyOnce ==
    /\ [](values_sent <= 1)
    /\ Awaited ~> (response # "pending")

\* C12: a SendDirectMessage or SendRoomMessage with a reply handle that its
\* service handled successfully has its reply answered with a message id
C12_HappyPathReplyDeliversId ==
    (hc.happy /\ hc.with_reply /\ IsSend(hc.kind)) => response = "id"

\* the Bus waits in handle_command for the state Mutex, which the run task
\* holds while it waits for room in the full event channel
LockCycle ==
    /\ busPc = "lock_state"
    /\ state_holder = "run"
    /\ mumble_run = "emitting"
    /\ Len(evt_rx) = EventCapacity

\* C39: in no reachable state does the Bus wait inside
\* MumbleService::handle_command for the state Mutex while the run task
\* holds that Mutex blocked on sending a UserListUpdate to the full event
\* channel, which only the Bus drains: every handle_command call can go on
C39_HandleCommandNeverStuck == ~LockCycle

\* ===================== Invite and Echo (src/src/middlewares/invite.rs, echo.rs)
\* on_event is called by the Bus; for a message that is its command it spawns
\* a task, which sends on the command channel and, for a command with a
\* reply handle, awaits the reply.  Text is a sequence of pieces, " " being
\* white space.

\* on_event calls in one run
MaxMwEvents == 2

MwServices == {"matrix"}
Whitespace == " "
InviteCommandString == << "!invite" >>
MessageBodies ==
    { << "!invite" >>, << " ", "!invite", " " >>, << "!invite", " ", "x" >>,
      << "!echo", " ", "x", " " >>, << "!echo", " " >>, << "!echo" >>,
      << " ", "!echo", " ", "x" >>, << "x" >>, << >> }

\* EventKind, event.rs lines 23-42, with the fields the two middlewares read
MwEvents ==
    [service_id : MwServices, kind : {"DirectMessage"}, user_id : {"@al"},
     room_id : {"None"}, body : MessageBodies, is_local_user : BOOLEAN]
    \cup [service_id : MwServices, kind : {"RoomMessage"}, user_id : {"None"},
          room_id : {"room1"}, body : MessageBodies, is_local_user : {TRUE}]
    \cup [service_id : MwServices, kind : {"UserListUpdate"}, user_id : {"None"},
          room_id : {"None"}, body : {<< >>}, is_local_user : {FALSE}]

\* str::trim: leading and trailing white space removed
RECURSIVE trim_start(_)
trim_start(body) ==
    IF body # << >> /\ Head(body) = Whitespace THEN trim_start(Tail(body))
    ELSE body
RECURSIVE trim_end(_)
trim_end(body) ==
    IF body # << >> /\ body[Len(body)] = Whitespace
    THEN trim_end(SubSeq(body, 1, Len(body) - 1))
    ELSE body
trim(body) == trim_end(trim_start(body))

\* Option::unwrap_or; an Option is << >> for None and << x >> for Some(x)
unwrap_or(option, default) == IF option = << >> THEN default ELSE option[1]

\* the configurations explored: uses_allowed and expiry absent or present
InviteConfigs ==
    [command_string : {InviteCommandString}, uses_allowed : {<< >>, << 5 >>},
     expiry : {<< >>, << 3600 >>}]

\* lines 89-91: the defaults of the reply text, one use and seven days
DefaultUses == 1
DefaultExpirySecs == 7 * 24 * 60 * 60

\* lines 59-60
RejectionBody == << "Invite tokens can only be generated for users from this server." >>

\* lines 56-61 and 145-149
SendDirectMessage(service_id, user_id, body) ==
    [kind |-> "SendDirectMessage", service_id |-> service_id,
     user_id |-> user_id, body |-> body]

\* the configured values replaced by the defaults of the reply text
GenerateInviteTokenDefaulted(service_id, user_id) ==
    [kind |-> "GenerateInviteToken", service_id |-> service_id, user_id |-> user_id,
     uses_allowed |-> << unwrap_or(mw_config.uses_allowed, DefaultUses) >>,
     expiry |-> << unwrap_or(mw_config.expiry, DefaultExpirySecs) >>,
     response_tx |-> TRUE]

\* lines 77-83
GenerateInviteToken(service_id, user_id) ==
    [kind |-> "GenerateInviteToken", service_id |-> service_id, user_id |-> user_id,
     uses_allowed |-> mw_config.uses_allowed, expiry |-> mw_config.expiry,
     response_tx |-> TRUE]

\* lines 110-142: the text for the requesting user
InviteReplyBody(reply) ==
    IF reply = "ok"
    THEN << "Registration token generated: ", "TOKEN",
            "Uses allowed: ", ToString(unwrap_or(mw_config.uses_allowed, DefaultUses)),
            "Expires: ", ToString(unwrap_or(mw_config.expiry, DefaultExpirySecs)) >>
    ELSE << "Failed to generate registration token. ", "error" >>

InviteInit ==
    /\ BusAtRest
    /\ BackoffAtRest
    /\ RelayAtRest
    /\ ChatAtRest
    /\ ReplyAtRest
    /\ BuildAtRest
    /\ mw_config \in InviteConfigs
    /\ MwConstructed

\* the request of a user of another server answered like a local user's
IsLocalAlways(event) == TRUE

\* line 49
IsLocal(event) == event.is_local_user

\* Invite::on_event, lines 39-162, up to the spawn
InviteOnEvent(event) ==
    /\ Len(mw_calls) < MaxMwEvents
    /\ mw_calls' = Append(mw_calls, [event |-> event, verdict |-> "Continue"])
    /\ mw_tasks' =
          IF event.kind = "DirectMessage" /\ trim(event.body) = mw_config.command_string
          THEN Append(mw_tasks,
                 [call |-> Len(mw_calls) + 1,
                  kind |-> IF IsLocal(event) THEN "token" ELSE "reject",
                  pc |-> "send", reply |-> "none",
                  service_id |-> event.service_id, user_id |-> event.user_id])
          ELSE mw_tasks
    /\ UNCHANGED << mw_config, mw_cmds, mw_rx_dropped >>
    /\ UNCHANGED outsideMw

\* one cmd_tx.send call: the command and whether the channel took it
Sent(t, command) ==
    Append(mw_cmds, [call |-> mw_tasks[t].call, command |-> command,
                     accepted |-> ~mw_rx_dropped])

\* the task of the rejection, lines 64-68
InviteTaskReject(t) ==
    /\ t \in 1..Len(mw_tasks)
    /\ mw_tasks[t].kind = "reject"
    /\ mw_tasks[t].pc = "send"
    /\ mw_cmds' = Sent(t, SendDirectMessage(mw_tasks[t].service_id,
                                            mw_tasks[t].user_id, RejectionBody))
    /\ mw_tasks' = [mw_tasks EXCEPT ![t].pc = "done"]
    /\ UNCHANGED << mw_config, mw_calls, mw_rx_dropped >>
    /\ UNCHANGED outsideMw

\* the task of the token, lines 93-98: a failed send ends it
InviteTaskRequest(t) ==
    /\ t \in 1..Len(mw_tasks)
    /\ mw_tasks[t].kind = "token"
    /\ mw_tasks[t].pc = "send"
    /\ mw_cmds' = Sent(t, GenerateInviteToken(mw_tasks[t].service_id,
                                              mw_tasks[t].user_id))
    /\ mw_tasks' = IF mw_rx_dropped
                   THEN [mw_tasks EXCEPT ![t].pc = "done"]
                   ELSE [mw_tasks EXCEPT ![t].pc = "await", ![t].reply = "pending"]
    /\ UNCHANGED << mw_config, mw_calls, mw_rx_dropped >>
    /\ UNCHANGED outsideMw

\* what the awaiter of a reply can see: a value, an error, or the handle
\* dropped with its command
MwReplyOutcomes == {"ok", "err", "dropped"}

\* the service fulfils the reply handle (dummy.rs lines 55-71 and matrix.rs
\* lines 671-690 always do), or the command is dropped unhandled, and the
\* handle with it, when the Bus and its Receiver are dropped
MwReply(t, outcome) ==
    /\ t \in 1..Len(mw_tasks)
    /\ mw_tasks[t].pc = "await"
    /\ mw_tasks[t].reply = "pending"
    /\ outcome = "dropped" => mw_rx_dropped
    /\ mw_tasks' = [mw_tasks EXCEPT ![t].reply = outcome]
    /\ UNCHANGED << mw_config, mw_calls, mw_cmds, mw_rx_dropped >>
    /\ UNCHANGED outsideMw

\* lines 101-153: a dropped reply ends the task, a token or an error is
\* passed on to the user
InviteTaskRespond(t) ==
    /\ t \in 1..Len(mw_tasks)
    /\ mw_tasks[t].kind = "token"
    /\ mw_tasks[t].pc = "await"
    /\ mw_tasks[t].reply \in MwReplyOutcomes
    /\ mw_cmds' = IF mw_tasks[t].reply = "dropped" THEN mw_cmds
                  ELSE Sent(t, SendDirectMessage(mw_tasks[t].service_id,
                                                 mw_tasks[t].user_id,
                                                 InviteReplyBody(mw_tasks[t].reply)))
    /\ mw_tasks' = [mw_tasks EXCEPT ![t].pc = "done"]
    /\ UNCHANGED << mw_config, mw_calls, mw_rx_dropped >>
    /\ UNCHANGED outsideMw

\* the Bus has returned: the command Receiver is dropped
MwDropReceiver ==
    /\ ~mw_rx_dropped
    /\ mw_rx_dropped' = TRUE
    /\ UNCHANGED << mw_config, mw_calls, mw_tasks, mw_cmds >>
    /\ UNCHANGED outsideMw

InviteNext ==
    \/ \E event \in MwEvents : InviteOnEvent(event)
    \/ \E t \in 1..MaxMwEvents : InviteTaskReject(t)
    \/ \E t \in 1..MaxMwEvents : InviteTaskRequest(t)
    \/ \E t \in 1..MaxMwEvents : \E outcome \in MwReplyOutcomes : MwReply(t, outcome)
    \/ \E t \in 1..MaxMwEvents : InviteTaskRespond(t)
    \/ MwDropReceiver

InviteSpec == InviteInit /\ [][InviteNext]_vars

\* the cmd_tx.send calls made for the i-th on_event call, in order
CmdsOf(i) == SelectSeq(mw_cmds, LAMBDA c : c.call = i)
\* the tasks spawned by the i-th on_event call
TasksOf(i) == {t \in 1..Len(mw_tasks) : mw_tasks[t].call = i}
\* the i-th call got a direct message that is the invite command
IsInviteRequest(i) ==
    /\ mw_calls[i].event.kind = "DirectMessage"
    /\ mw_calls[i].event.body \in {<< "!invite" >>, << " ", "!invite", " " >>}

\* C22: the invite command in a direct message of a user who is not local
\* gets exactly one SendDirectMessage to the sender, with the rejection
\* text, and never a GenerateInviteToken; a room message, and a direct
\* message with any other body, get no command at all
C22_NonLocalRejectedOthersIgnored ==
    \A i \in 1..Len(mw_calls) :
       LET event == mw_calls[i].event
           sending == {t \in TasksOf(i) : mw_tasks[t].pc = "send"}
       IN  /\ (IsInviteRequest(i) /\ ~event.is_local_user) =>
                 /\ Len(CmdsOf(i)) + Cardinality(sending) = 1
                 /\ \A t \in TasksOf(i) : mw_tasks[t].pc \in {"send", "done"}
                 /\ \A k \in 1..Len(CmdsOf(i)) :
                       /\ CmdsOf(i)[k].command.kind = "SendDirectMessage"
                       /\ CmdsOf(i)[k].command.service_id = event.service_id
                       /\ CmdsOf(i)[k].command.user_id = event.user_id
                       /\ CmdsOf(i)[k].command.body = RejectionBody
           /\ ~IsInviteRequest(i) =>
                 /\ CmdsOf(i) = << >>
                 /\ TasksOf(i) = {}

\* a padded invite command of a user of another server was rejected, and
\* the same words in a room were ignored
C22_Witness ==
    \E i, j \in 1..Len(mw_calls) :
       /\ mw_calls[i].event.kind = "DirectMessage"
       /\ mw_calls[i].event.body = << " ", "!invite", " " >>
       /\ ~mw_calls[i].event.is_local_user
       /\ Len(CmdsOf(i)) = 1
       /\ CmdsOf(i)[1].accepted
       /\ CmdsOf(i)[1].command.kind = "SendDirectMessage"
       /\ mw_calls[j].event.kind = "RoomMessage"
       /\ mw_calls[j].event.body = << "!invite" >>
       /\ \A t \in 1..Len(mw_tasks) : mw_tasks[t].pc = "done"

\* the i-th call got the invite command from a local user
IsLocalRequest(i) == IsInviteRequest(i) /\ mw_calls[i].event.is_local_user

\* what is sent for a local request: first the GenerateInviteToken with the
\* configured uses_allowed and expiry as they are, then at most one
\* SendDirectMessage to the requesting user, and that only with the reply
\* resolved to a token or an error, whose text it carries
TokenThenAnswer(i) ==
    LET event == mw_calls[i].event
        cmds == CmdsOf(i)
    IN  /\ Cardinality(TasksOf(i)) = 1
        /\ Len(cmds) <= 2
        /\ \A t \in TasksOf(i) :
              /\ mw_tasks[t].pc # "send" => Len(cmds) >= 1
              /\ Len(cmds) = 2 =>
                    /\ cmds[1].accepted
                    /\ mw_tasks[t].reply \in {"ok", "err"}
                    /\ cmds[2].command.kind = "SendDirectMessage"
                    /\ cmds[2].command.service_id = event.service_id
                    /\ cmds[2].command.user_id = event.user_id
                    /\ cmds[2].command.body[1] =
                          IF mw_tasks[t].reply = "ok"
                          THEN "Registration token generated: "
                          ELSE "Failed to generate registration token. "
                    /\ mw_tasks[t].reply = "ok" => cmds[2].command.body[2] = "TOKEN"
        /\ Len(cmds) >= 1 =>
              /\ cmds[1].command.kind = "GenerateInviteToken"
              /\ cmds[1].command.service_id = event.service_id
              /\ cmds[1].command.user_id = event.user_id
              /\ cmds[1].command.uses_allowed = mw_config.uses_allowed
              /\ cmds[1].command.expiry = mw_config.expiry
              /\ cmds[1].command.response_tx

\* C23 as stated: a local request gets one GenerateInviteToken with the
\* configured uses_allowed and expiry unchanged and, the reply awaited,
\* exactly one SendDirectMessage to the requesting user with the token or a
\* failure explanation, never before the reply resolves
C23_TokenThenExactlyOneAnswer ==
    \A i \in 1..Len(mw_calls) :
       IsLocalRequest(i) =>
          /\ TokenThenAnswer(i)
          /\ \A t \in TasksOf(i) :
                (mw_tasks[t].pc = "done" /\ CmdsOf(i)[1].accepted)
                    => Len(CmdsOf(i)) = 2

\* C23, amended: ... exactly one SendDirectMessage when the reply resolves
\* to a token or an error, and none when the reply handle is dropped
\* without a value or the GenerateInviteToken could not be sent; never a
\* SendDirectMessage before the reply resolves
C23_AnswerIffReplyHasValue ==
    \A i \in 1..Len(mw_calls) :
       IsLocalRequest(i) =>
          /\ TokenThenAnswer(i)
          /\ \A t \in TasksOf(i) :
                mw_tasks[t].pc = "done" =>
                   (Len(CmdsOf(i)) = 2 <=> mw_tasks[t].reply \in {"ok", "err"})

\* with uses_allowed and expiry not configured, one local request was
\* answered with its token and another with the failure
C23_Witness ==
    /\ mw_config.uses_allowed = << >>
    /\ mw_config.expiry = << >>
    /\ \E i, j \in 1..Len(mw_calls) :
          /\ IsLocalRequest(i)
          /\ IsLocalRequest(j)
          /\ Len(CmdsOf(i)) = 2
          /\ Len(CmdsOf(j)) = 2
          /\ CmdsOf(i)[1].command.uses_allowed = << >>
          /\ CmdsOf(i)[2].command.body[2] = "TOKEN"
          /\ CmdsOf(j)[2].command.body[1] = "Failed to generate registration token. "

\* ------------------------------------------------------------------- Echo
EchoConfigs ==
    [command_string : {<< "!echo" >>}, uses_allowed : {<< >>}, expiry : {<< >>}]

\* the remainder with its white space removed
strip_prefix_trimmed(body, prefix) ==
    IF Len(body) >= Len(prefix) /\ SubSeq(body, 1, Len(prefix)) = prefix
    THEN << trim(SubSeq(body, Len(prefix) + 1, Len(body))) >>
    ELSE << >>

\* str::strip_prefix, line 41: Some(remainder) when body starts with prefix
strip_prefix(body, prefix) ==
    IF Len(body) >= Len(prefix) /\ SubSeq(body, 1, Len(prefix)) = prefix
    THEN << SubSeq(body, Len(prefix) + 1, Len(body)) >>
    ELSE << >>

\* lines 46-61: the command for the kind of the event
EchoCommand(event, echo_content) ==
    IF event.kind = "DirectMessage"
    THEN [kind |-> "SendDirectMessage", service_id |-> event.service_id,
          user_id |-> event.user_id, body |-> echo_content,
          response_tx |-> TRUE]
    ELSE [kind |-> "SendRoomMessage", service_id |-> event.service_id,
          room_id |-> event.room_id, body |-> echo_content,
          markdown_body |-> << >>, response_tx |-> TRUE]

EchoInit ==
    /\ BusAtRest
    /\ BackoffAtRest
    /\ RelayAtRest
    /\ ChatAtRest
    /\ ReplyAtRest
    /\ BuildAtRest
    /\ mw_config \in EchoConfigs
    /\ MwConstructed

\* Echo::on_event, lines 31-94, up to the spawn
EchoOnEvent(event) ==
    /\ Len(mw_calls) < MaxMwEvents
    /\ mw_calls' = Append(mw_calls, [event |-> event, verdict |-> "Continue"])
    /\ LET prefix == mw_config.command_string \o << Whitespace >>
           echo_content == strip_prefix(event.body, prefix)
       IN  mw_tasks' =
             IF event.kind \in {"DirectMessage", "RoomMessage"} /\ echo_content # << >>
             THEN Append(mw_tasks,
                    [call |-> Len(mw_calls) + 1, kind |-> "echo", pc |-> "send",
                     reply |-> "none",
                     command |-> EchoCommand(event, echo_content[1])])
             ELSE mw_tasks
    /\ UNCHANGED << mw_config, mw_cmds, mw_rx_dropped >>
    /\ UNCHANGED outsideMw

\* the task, lines 66-70: a failed send ends it
EchoTaskSend(t) ==
    /\ t \in 1..Len(mw_tasks)
    /\ mw_tasks[t].pc = "send"
    /\ mw_cmds' = Sent(t, mw_tasks[t].command)
    /\ mw_tasks' = IF mw_rx_dropped
                   THEN [mw_tasks EXCEPT ![t].pc = "done"]
                   ELSE [mw_tasks EXCEPT ![t].pc = "await", ![t].reply = "pending"]
    /\ UNCHANGED << mw_config, mw_calls, mw_rx_dropped >>
    /\ UNCHANGED outsideMw

\* lines 73-87: the reply is logged, whatever it is
EchoTaskLog(t) ==
    /\ t \in 1..Len(mw_tasks)
    /\ mw_tasks[t].pc = "await"
    /\ mw_tasks[t].reply \in MwReplyOutcomes
    /\ mw_tasks' = [mw_tasks EXCEPT ![t].pc = "done"]
    /\ UNCHANGED << mw_config, mw_calls, mw_cmds, mw_rx_dropped >>
    /\ UNCHANGED outsideMw

EchoNext ==
    \/ \E event \in MwEvents : EchoOnEvent(event)
    \/ \E t \in 1..MaxMwEvents : EchoTaskSend(t)
    \/ \E t \in 1..MaxMwEvents : \E outcome \in MwReplyOutcomes : MwReply(t, outcome)
    \/ \E t \in 1..MaxMwEvents : EchoTaskLog(t)
    \/ MwDropReceiver

EchoSpec == EchoInit /\ [][EchoNext]_vars

\* the bodies that begin with "!echo" and one space
EchoRequests == { << "!echo", " ", "x", " " >>, << "!echo", " " >> }
\* what follows "!echo " in them
EchoRemainder(body) ==
    IF body = << "!echo", " ", "x", " " >> THEN << "x", " " >> ELSE << >>

\* C24: a direct or room message whose body begins with the command and
\* one space gets exactly one command to the service of the event, a
\* SendDirectMessage to user_id for a direct message and a SendRoomMessage
\* to room_id for a room message, its body being what follows the prefix;
\* any other body or event kind gets no command; on_event returns Continue
\* in every case
C24_EchoRepliesWithRemainder ==
    \A i \in 1..Len(mw_calls) :
       LET event == mw_calls[i].event
           sending == {t \in TasksOf(i) : mw_tasks[t].pc = "send"}
           cmds == CmdsOf(i)
       IN  /\ mw_calls[i].verdict = "Continue"
           /\ (event.kind \in {"DirectMessage", "RoomMessage"}
                  /\ event.body \in EchoRequests) =>
                 /\ Len(cmds) + Cardinality(sending) = 1
                 /\ \A k \in 1..Len(cmds) :
                       /\ cmds[k].command.service_id = event.service_id
                       /\ cmds[k].command.body = EchoRemainder(event.body)
                       /\ event.kind = "DirectMessage" =>
                             /\ cmds[k].command.kind = "SendDirectMessage"
                             /\ cmds[k].command.user_id = event.user_id
                       /\ event.kind = "RoomMessage" =>
                             /\ cmds[k].command.kind = "SendRoomMessage"
                             /\ cmds[k].command.room_id = event.room_id
           /\ ~(event.kind \in {"DirectMessage", "RoomMessage"}
                   /\ event.body \in EchoRequests) =>
                 /\ cmds = << >>
                 /\ TasksOf(i) = {}

\* a room message "!echo x " was answered in its room with "x ", and a
\* direct message with white space before the command was not answered
C24_Witness ==
    \E i, j \in 1..Len(mw_calls) :
       /\ mw_calls[i].event.kind = "RoomMessage"
       /\ mw_calls[i].event.body = << "!echo", " ", "x", " " >>
       /\ Len(CmdsOf(i)) = 1
       /\ CmdsOf(i)[1].accepted
       /\ CmdsOf(i)[1].command.kind = "SendRoomMessage"
       /\ CmdsOf(i)[1].command.body = << "x", " " >>
       /\ mw_calls[j].event.kind = "DirectMessage"
       /\ mw_calls[j].event.body = << " ", "!echo", " ", "x" >>
       /\ \A t \in 1..Len(mw_tasks) : mw_tasks[t].pc = "done"

\* ================== build_middleware_pipeline (src/src/core/middleware.rs)
\* names in the list of one service
MaxNames == 3

MiddlewareNames == {"echo", "logger", "ghost"}
\* the Arc<dyn Middleware> instances, told apart by Arc::ptr_eq
Instances == {"arc1", "arc2"}

RECURSIVE SeqsUpTo(_, _)
SeqsUpTo(set, n) ==
    IF n = 0 THEN { << >> }
    ELSE SeqsUpTo(set, n - 1)
         \cup { Append(q, x) : q \in {r \in SeqsUpTo(set, n - 1) : Len(r) = n - 1},
                              x \in set }

BuildInit ==
    /\ BusAtRest
    /\ BackoffAtRest
    /\ RelayAtRest
    /\ ChatAtRest
    /\ ReplyAtRest
    /\ MwAtRest
    /\ middleware_names \in SeqsUpTo(MiddlewareNames, MaxNames)
    /\ \E defined \in SUBSET MiddlewareNames :
          all_middlewares \in [defined -> Instances]
    /\ built = NotBuilt

\* a name that is not defined passed over
RECURSIVE build_middleware_pipeline_skipping(_, _)
build_middleware_pipeline_skipping(names, all) ==
    IF names = << >> THEN [result |-> "ok", pipeline |-> << >>, name |-> "None"]
    ELSE LET rest == build_middleware_pipeline_skipping(Tail(names), all)
         IN  IF Head(names) \in DOMAIN all
             THEN [rest EXCEPT !.pipeline = << all[Head(names)] >> \o rest.pipeline]
             ELSE rest

\* lines 92-108: the loop over the names; bail! at the first one that
\* all_middlewares does not hold
RECURSIVE build_middleware_pipeline(_, _)
build_middleware_pipeline(names, all) ==
    IF names = << >> THEN [result |-> "ok", pipeline |-> << >>, name |-> "None"]
    ELSE IF Head(names) \notin DOMAIN all
    THEN [result |-> "err", pipeline |-> << >>, name |-> Head(names)]
    ELSE LET rest == build_middleware_pipeline(Tail(names), all)
         IN  IF rest.result = "err" THEN rest
             ELSE [rest EXCEPT !.pipeline = << all[Head(names)] >> \o rest.pipeline]

\* main.rs line 33: the call for the list of one service
BuildPipeline ==
    /\ built = NotBuilt
    /\ built' = build_middleware_pipeline(middleware_names, all_middlewares)
    /\ UNCHANGED << middleware_names, all_middlewares >>
    /\ UNCHANGED outsideBuild

BuildNext == BuildPipeline

BuildSpec == BuildInit /\ [][BuildNext]_vars

\* C27: with a name of the list not defined in the map the result is an
\* error that names such a middleware; otherwise it is a pipeline as long
\* as the list whose i-th element is the instance registered under the
\* i-th name, a repeated name giving the same instance again; an empty list
\* gives an empty pipeline
C27_PipelineFollowsNames ==
    built # NotBuilt =>
       LET missing == {i \in 1..Len(middleware_names) :
                          middleware_names[i] \notin DOMAIN all_middlewares}
       IN  /\ missing # {} =>
                 /\ built.result = "err"
                 /\ \E i \in missing : built.name = middleware_names[i]
           /\ missing = {} =>
                 /\ built.result = "ok"
                 /\ Len(built.pipeline) = Len(middleware_names)
                 /\ \A i \in 1..Len(middleware_names) :
                       built.pipeline[i] = all_middlewares[middleware_names[i]]
                 /\ \A i, j \in 1..Len(middleware_names) :
                       middleware_names[i] = middleware_names[j]
                          => built.pipeline[i] = built.pipeline[j]
           /\ middleware_names = << >> => built.pipeline = << >>

\* a list naming echo twice around logger was built into a pipeline of three
\* with the instance of echo at both ends
C27_Witness ==
    /\ middleware_names = << "echo", "logger", "echo" >>
    /\ built.result = "ok"
    /\ built.pipeline = << "arc1", "arc2", "arc1" >>

====
